---- MODULE Spec2Model ----
(***************************************************************************)
(* Reconciliation engine of provider-cassandra: the Observe / Create /     *)
(* Update / Delete contract of the Grant, Keyspace and Role controllers,   *)
(* run against a database that records what the statements say.            *)
(***************************************************************************)
EXTENDS Integers, Sequences, FiniteSets, TLC

(***************************************************************************)
(* Bounds                                                                  *)
(***************************************************************************)
\* longest spec.forProvider.privileges list explored
MaxPrivs == 2
\* statement / query failures the database may inject in the scheduled runs
MaxFailures == 2

(***************************************************************************)
(* Grant: values                                                           *)
(***************************************************************************)
\* A privilege string is a sequence of tokens, so that "_" and " " are
\* characters the normalisation really replaces.
AllPermissions == <<"ALL", "_", "PERMISSIONS">>
Select == <<"SELECT">>
Modify == <<"MODIFY">>

\* values of the GrantPrivilege enum explored (grant_types.go:29); MODIFY is
\* a permission other parties hold in the database
GrantPrivilege == {AllPermissions, Select}

\* spec.forProvider.role / spec.forProvider.keyspace of the Grant object
GrantRole == "example_role"
GrantKeyspace == "example_keyspace"

RECURSIVE SeqsUpTo(_, _)
SeqsUpTo(S, n) ==
    IF n = 0 THEN {<<>>}
    ELSE LET shorter == SeqsUpTo(S, n - 1)
         IN  shorter \cup {Append(s, x) : s \in {t \in shorter : Len(t) = n - 1}, x \in S}

\* GrantPrivileges: the lists the caller may put in spec.forProvider.privileges
GrantPrivileges == SeqsUpTo(GrantPrivilege, MaxPrivs)

Range(s) == {s[i] : i \in DOMAIN s}

\* no item of the list stands in it twice
NoRepeat(s) == \A i, j \in DOMAIN s : s[i] = s[j] => i = j

\* all orders in which the elements of a finite set can be visited
RECURSIVE Orders(_)
Orders(S) ==
    IF S = {} THEN {<<>>}
    ELSE UNION {{<<x>> \o o : o \in Orders(S \ {x})} : x \in S}

(***************************************************************************)
(* Grant: pure helpers                                                     *)
(***************************************************************************)
\* strings.ReplaceAll(string(privilege), "_", " ")
ReplaceAll(s) == [i \in 1..Len(s) |-> IF s[i] = "_" THEN " " ELSE s[i]]

replaceUnderscoreWithSpace(privileges) ==
    [i \in 1..Len(privileges) |-> ReplaceAll(privileges[i])]

\* cassandra.QuoteIdentifier: the name between double quotes
QuoteIdentifier(name) == <<"\"", name, "\"">>

\* a value handed to Query as an argument is bound to a ? of the text
Bound == <<"?">>

\* the statement texts of Create / Update / Delete
GrantQuery(privilege) ==
    [verb |-> "GRANT", priv |-> privilege, keyspace |-> QuoteIdentifier(GrantKeyspace),
     role |-> QuoteIdentifier(GrantRole)]

\* variant that takes the privilege from every role of the keyspace
RevokeQueryOfAnyRole(privilege) ==
    [verb |-> "REVOKE", priv |-> privilege, keyspace |-> QuoteIdentifier(GrantKeyspace),
     role |-> <<"*">>]

RevokeQuery(privilege) ==
    [verb |-> "REVOKE", priv |-> privilege, keyspace |-> QuoteIdentifier(GrantKeyspace),
     role |-> QuoteIdentifier(GrantRole)]

\* SELECT permissions FROM system_auth.role_permissions
\*   WHERE role = ? AND resource = 'data/%s', with the role as argument
PermissionsQuery ==
    [verb |-> "SELECT", columns |-> "permissions", table |-> "system_auth.role_permissions",
     role |-> Bound, resource |-> <<"'", "data/", GrantKeyspace, "'">>,
     args |-> <<GrantRole>>]

\* what a successful statement does to the permission set of (role, keyspace)
DbExecGrant(live, stmt) ==
    IF stmt.verb = "GRANT" THEN live \cup {stmt.priv} ELSE live \ {stmt.priv}

\* the rows the permission query can return for a live permission set: no
\* row, one row listing the set in some order, or a further row repeating
\* a permission
QueryRows(live) ==
    IF live = {} THEN {<<>>}
    ELSE {<<o>> : o \in Orders(live)} \cup {<<o, <<Head(o)>>>> : o \in Orders(live)}

\* for iter.Scan(&permissions) { for _, p := range permissions { observed[p] = true } }
RECURSIVE ObservedPermissions(_)
ObservedPermissions(rows) ==
    IF rows = <<>> THEN {}
    ELSE Range(Head(rows)) \cup ObservedPermissions(Tail(rows))

\* desiredPermissions[p] = true for every p of the list: the keys of the map
DesiredPermissions(privileges) == Range(privileges)

\* variants of the visit of the desired keys: one that never finds the
\* resource, one that finds it whatever is observed, and one that stops after
\* the first key
VisitDesiredNeverExists(order, observed, exists) ==
    [upToDate |-> Range(order) \subseteq observed, resourceExists |-> FALSE]

VisitDesiredOptimistic(order, observed, exists) ==
    [upToDate |-> Range(order) \subseteq observed, resourceExists |-> TRUE]

VisitDesiredFirst(order, observed, exists) ==
    IF order = <<>> THEN [upToDate |-> TRUE, resourceExists |-> exists]
    ELSE [upToDate |-> Head(order) \in observed, resourceExists |-> Head(order) \in observed]

\* for p := range desiredPermissions { if !observed[p] { upToDate = false; break }
\*                                     else { resourceExists = true } }
\* visited in the order the map iteration happens to take
RECURSIVE VisitDesired(_, _, _)
VisitDesired(order, observed, exists) ==
    IF order = <<>> THEN [upToDate |-> TRUE, resourceExists |-> exists]
    ELSE IF Head(order) \notin observed
         THEN [upToDate |-> FALSE, resourceExists |-> exists]
         ELSE VisitDesired(Tail(order), observed, TRUE)

\* variant of the visit of the status list that never lowers the verdict
VisitStatusIgnoring(atProvider, desired, upToDate) == upToDate

\* for _, p := range atProviderPrivileges { if !desired[p] { upToDate = false } }
RECURSIVE VisitStatus(_, _, _)
VisitStatus(atProvider, desired, upToDate) ==
    IF atProvider = <<>> THEN upToDate
    ELSE VisitStatus(Tail(atProvider), desired,
                     IF Head(atProvider) \notin desired THEN FALSE ELSE upToDate)

(***************************************************************************)
(* Keyspace and Role: values and pure helpers                              *)
(***************************************************************************)
\* external names of the Keyspace and the Role object
KeyspaceName == "example_keyspace"
RoleName == "example_role"

\* A class name is a sequence of tokens, so that the locator prefix is a
\* part of the string that TrimPrefix really removes.
LocatorPrefix == "org.apache.cassandra.locator."
SimpleStrategy == <<"SimpleStrategy">>
NetworkTopologyStrategy == <<"NetworkTopologyStrategy">>

\* values of the ReplicationClass enum (KeyspaceParameters)
ReplicationClasses == {SimpleStrategy, NetworkTopologyStrategy}

\* replication factors explored
ReplicationFactors == {0, 1, 2, 12}

defaultStrategy == SimpleStrategy
defaultReplicas == 1

\* variant that keeps the qualified class name
TrimPrefixKeeping(rc, prefix) == rc

\* strings.TrimPrefix(rc, "org.apache.cassandra.locator.")
TrimPrefix(rc, prefix) ==
    IF Len(rc) > 0 /\ Head(rc) = prefix THEN Tail(rc) ELSE rc

\* the decimal digit characters, DigitChars[d + 1] the character of digit d
DigitChars == <<"0", "1", "2", "3", "4", "5", "6", "7", "8", "9">>

DigitValue(ch) == (CHOOSE j \in DOMAIN DigitChars : DigitChars[j] = ch) - 1

\* strconv.Itoa: the decimal digits of n, most significant first
RECURSIVE Digits(_)
Digits(n) ==
    IF n < 10 THEN <<DigitChars[n + 1]>>
    ELSE Append(Digits(n \div 10), DigitChars[(n % 10) + 1])

Itoa(n) == IF n < 0 THEN <<"-">> \o Digits(0 - n) ELSE Digits(n)

\* strconv.Atoi: the value of a decimal string, or 0 and an error
RECURSIVE DigitsValue(_)
DigitsValue(ds) ==
    IF ds = <<>> THEN 0
    ELSE 10 * DigitsValue(SubSeq(ds, 1, Len(ds) - 1)) + DigitValue(ds[Len(ds)])

IsDigits(ds) == ds # <<>> /\ \A j \in DOMAIN ds : \E k \in DOMAIN DigitChars : DigitChars[k] = ds[j]

Atoi(str) ==
    IF IsDigits(str) THEN [val |-> DigitsValue(str), err |-> FALSE]
    ELSE IF str # <<>> /\ Head(str) \in {"-", "+"} /\ IsDigits(Tail(str))
    THEN [val |-> IF Head(str) = "-" THEN 0 - DigitsValue(Tail(str))
                  ELSE DigitsValue(Tail(str)),
          err |-> FALSE]
    ELSE [val |-> 0, err |-> TRUE]

\* strconv.FormatBool and the %t verb
FormatBool(b) == IF b THEN "true" ELSE "false"

\* the boolean a CQL literal denotes to the database
CqlBool(text) == text = "true"

\* variant whose CREATE has no IF NOT EXISTS
KeyspaceQueryUnguarded(verb, strategy, replicationFactor, durableWrites) ==
    [verb |-> IF verb = "ALTER KEYSPACE" THEN verb ELSE "CREATE KEYSPACE",
     name |-> QuoteIdentifier(KeyspaceName), class |-> strategy,
     factor |-> Itoa(replicationFactor), durable |-> FormatBool(durableWrites)]

\* CREATE KEYSPACE IF NOT EXISTS / ALTER KEYSPACE ... WITH replication = {...}
\*   AND durable_writes = ...
KeyspaceQuery(verb, strategy, replicationFactor, durableWrites) ==
    [verb |-> verb, name |-> QuoteIdentifier(KeyspaceName), class |-> strategy,
     factor |-> Itoa(replicationFactor), durable |-> FormatBool(durableWrites)]

\* variant whose statement has no IF EXISTS
DropQueryUnguarded(verb, name) ==
    [verb |-> IF verb = "DROP KEYSPACE IF EXISTS" THEN "DROP KEYSPACE" ELSE "DROP ROLE",
     name |-> QuoteIdentifier(name)]

\* DROP KEYSPACE IF EXISTS / DROP ROLE IF EXISTS
DropQuery(verb, name) == [verb |-> verb, name |-> QuoteIdentifier(name)]

\* SELECT keyspace_name FROM system_schema.keyspaces WHERE keyspace_name = ?
existsQuery ==
    [verb |-> "SELECT", columns |-> "keyspace_name", table |-> "system_schema.keyspaces",
     name |-> Bound, args |-> <<KeyspaceName>>]

\* SELECT replication, durable_writes FROM system_schema.keyspaces
\*   WHERE keyspace_name = ?
detailsQuery ==
    [verb |-> "SELECT", columns |-> "replication, durable_writes",
     table |-> "system_schema.keyspaces", name |-> Bound, args |-> <<KeyspaceName>>]

\* variant that hands a statement to Exec
RoleSelectQueryDropping == DropQuery("DROP ROLE IF EXISTS", RoleName)

\* SELECT is_superuser, can_login FROM system_auth.roles WHERE role = ?
RoleSelectQuery ==
    [verb |-> "SELECT", columns |-> "is_superuser, can_login", table |-> "system_auth.roles",
     name |-> Bound, args |-> <<RoleName>>]

\* the keyspace rows a CREATE or ALTER statement can leave: the database
\* keeps the replication map it was given, the class possibly under its
\* fully qualified name
DbKeyspaceRows(stmt) ==
    {[replication |-> [k \in {"class", "replication_factor"} |->
                          IF k = "class" THEN c ELSE stmt.factor],
      durable_writes |-> CqlBool(stmt.durable)]
        : c \in {stmt.class, <<LocatorPrefix>> \o stmt.class}}

\* the replication maps a keyspace found in the database can have: either
\* entry may be missing, and the factor may be no integer
ReplicationMaps ==
    LET classes == UNION {{c, <<LocatorPrefix>> \o c} : c \in ReplicationClasses}
        factors == {Itoa(f) : f \in ReplicationFactors} \cup {<<"x">>}
    IN  {[k \in D |-> IF k = "class" THEN c ELSE f] :
            D \in SUBSET {"class", "replication_factor"}, c \in classes, f \in factors}

KeyspaceRows == {[replication |-> m, durable_writes |-> d] : m \in ReplicationMaps, d \in BOOLEAN}

\* CREATE ROLE IF NOT EXISTS / ALTER ROLE ... WITH SUPERUSER = %t AND LOGIN = %t
RoleQuery(verb, superuser, login, pw) ==
    [verb |-> verb, name |-> QuoteIdentifier(RoleName), superuser |-> FormatBool(superuser),
     login |-> FormatBool(login), password |-> pw]

\* variant that returns the user name only
GetConnectionDetailsUserOnly(username, password) == {<<"username", username>>}

\* MockDB.GetConnectionDetails: a map, as the set of its entries
GetConnectionDetails(username, password) ==
    {<<"username", username>>, <<"password", password>>}

\* passwords password.Generate() can return
Passwords == {"pw1", "pw2"}

(***************************************************************************)
(* Grant: state                                                            *)
(***************************************************************************)
VARIABLES
    kind,         \* the kind of the object under reconciliation
    mg,           \* the managed object handed to the current or last call
    ctx,          \* the context of the call in flight: "live" or "canceled"
    cur,          \* the cursors the current or last call obtained from Query
    pc,           \* position of the call in flight
    log,          \* what the current or last call handed to its collaborators:
                  \* statements to Exec, queries to Query, the calls of Connect
    pre,          \* what the call found in the object: the Grant's status, the
                  \* Keyspace's or Role's spec.forProvider
    res,          \* what the last completed call returned
    failBudget,   \* failures the database may still inject (scheduled runs)
    kDesired,     \* Keyspace: cr.Spec.ForProvider
    kLive,        \* Keyspace: its rows in system_schema.keyspaces
    rDesired,     \* Role: cr.Spec.ForProvider.Privileges
    rLive,        \* Role: its rows in system_auth.roles
    gDesired,     \* cr.Spec.ForProvider.Privileges
    gStatus,      \* cr.Status.AtProvider.Privileges
    gAvailable,   \* the Available condition has been set on cr
    gLive,        \* permissions of (role, data/keyspace) in the database
    gI,           \* index of the loop the call is in
    gTracked,     \* privileges that have been recorded in status
    gPartial,     \* a Create or Update has failed after applying a statement
    pair          \* two declared Grants on one database, and each of them alone

vars == <<kind, mg, ctx, cur, pc, log, pre, res, failBudget, kDesired, kLive, rDesired, rLive,
          gDesired, gStatus, gAvailable, gLive, gI, gTracked, gPartial, pair>>

\* the runs of one object declare no second one
NoPair == [obj |-> <<>>, db |-> <<>>, alone |-> <<>>]

\* an optional attribute is a pointer: nil, or a pointer to a value
Nil == <<>>
Ptr(v) == <<v>>
Deref(p) == p[1]

\* the rows of a table that match a key: none, or the one row
Absent == {}

\* what the database makes of a statement on an object it has (live is the
\* row) or has not (live is Absent), made being the rows the statement can
\* leave: each outcome is the cause of the error, if any, and the rows after
DbOutcome(live, stmt, made) ==
    IF stmt.verb \in {"CREATE KEYSPACE IF NOT EXISTS", "CREATE ROLE IF NOT EXISTS"}
    THEN IF live = Absent THEN {[cause |-> "none", live |-> {row}] : row \in made}
         ELSE {[cause |-> "none", live |-> live]}
    ELSE IF stmt.verb \in {"CREATE KEYSPACE", "CREATE ROLE"}
    THEN IF live = Absent THEN {[cause |-> "none", live |-> {row}] : row \in made}
         ELSE {[cause |-> "already exists", live |-> live]}
    ELSE IF stmt.verb \in {"ALTER KEYSPACE", "ALTER ROLE"}
    THEN IF live = Absent THEN {[cause |-> "does not exist", live |-> live]}
         ELSE {[cause |-> "none", live |-> {row}] : row \in made}
    ELSE IF stmt.verb \in {"DROP KEYSPACE IF EXISTS", "DROP ROLE IF EXISTS"}
    THEN {[cause |-> "none", live |-> Absent]}
    ELSE IF live = Absent THEN {[cause |-> "does not exist", live |-> live]}
         ELSE {[cause |-> "none", live |-> Absent]}

\* the objects of the kinds that are not under reconciliation
KeyspaceIdle ==
    /\ kDesired = [class |-> Nil, factor |-> Nil, durable |-> Nil]
    /\ kLive = Absent

RoleIdle ==
    /\ rDesired = [superuser |-> Nil, login |-> Nil]
    /\ rLive = Absent

GrantIdle ==
    /\ gDesired = <<>>
    /\ gStatus = <<>>
    /\ gAvailable = FALSE
    /\ gLive = {}
    /\ gI = 0
    /\ gTracked = {}
    /\ gPartial = FALSE

gvars == <<gDesired, gStatus, gAvailable, gLive, gI, gTracked, gPartial>>

\* what a caller can hand to a method of the controller: the object of its
\* kind, nothing, or an object of another kind
Handed == {kind, "nil", "Other"}

\* variant of the type assertion that takes any object
IsKindAny(obj, expected) == TRUE

\* cr, ok := mg.(*v1alpha1.Grant) (or Keyspace, or Role): ok
IsKind(obj, expected) == obj = expected

\* the method is handed an object that passes the type assertion
Accepts(expected) == \E obj \in Handed : IsKind(obj, expected) /\ mg' = obj

\* a call on a Grant leaves the other kinds alone
GrantFrame == kind = "Grant" /\ UNCHANGED <<pair, kind, kDesired, kLive, rDesired, rLive>>

\* error labels of grant.go
errGrantCreate == "cannot create grant"
errGrantDelete == "cannot delete grant"
errGrantObserve == "cannot observe grant"
nil == "nil"

\* the last Observe reported the object present and not up to date
Drifted(r) == r.op = "Observe" /\ r.err = nil /\ r.exists /\ ~r.upToDate

\* the call that completed before an Observe, as far as the Observe is judged
\* against it: a Create (on a database without the object or with it), an
\* Update that followed a drift verdict, a Delete, each without an error, or
\* an Observe that reported the object present and up to date
Summary(r) ==
    IF r.err # nil THEN "other"
    ELSE IF r.op = "Create" THEN (IF r.prev = "absent" THEN "CreateAbsent" ELSE "Create")
    ELSE IF r.op = "Update" /\ r.prev = "Drifted" THEN "UpdateDrifted"
    ELSE IF r.op = "Delete" THEN "Delete"
    ELSE IF r.op = "Observe" /\ r.exists /\ r.upToDate THEN "Synced"
    ELSE "other"

NoCall == [op |-> "none", err |-> nil, cause |-> "none", exists |-> FALSE,
           upToDate |-> FALSE, lateInit |-> FALSE, details |-> {}, client |-> FALSE,
           prev |-> "none"]

\* the zero-value result of a call together with its error
Returned(op, err) ==
    [op |-> op, err |-> err, cause |-> "none", exists |-> FALSE, upToDate |-> FALSE,
     lateInit |-> FALSE, details |-> {}, client |-> FALSE, prev |-> "none"]

\* the error the database client returns when a call fails for reasons of
\* the database's own
errBoom == "boom"

\* variant whose error is the label alone
WrappedBare(op, label, cause) == Returned(op, label)

\* errors.Wrap(err, label), errors.New(label + ": " + err.Error()): the
\* zero-value result with an error that carries the label and the cause
Wrapped(op, label, cause) == [Returned(op, label) EXCEPT !.cause = cause]

\* managed.ExternalCreation{}, nil; the history notes whether the statement
\* met a database without the object, and whether the call before was a
\* Create without an error
Created(live) ==
    [Returned("Create", nil) EXCEPT
        !.prev = IF live = Absent THEN "absent"
                 ELSE IF res.op = "Create" /\ res.err = nil /\ mg = kind THEN "again"
                 ELSE "present"]

\* return nil of Delete; the history notes whether the statement met a
\* database without the object
Deleted(live) ==
    [Returned("Delete", nil) EXCEPT !.prev = IF live = Absent THEN "absent" ELSE "present"]

\* managed.ExternalUpdate{}, nil; the history notes whether the Update
\* followed a drift verdict
Updated(last) ==
    [Returned("Update", nil) EXCEPT !.prev = IF Drifted(last) THEN "Drifted" ELSE "none"]

\* managed.ExternalObservation{ResourceExists, ResourceLateInitialized, ResourceUpToDate}, nil
ExternalObservation(exists, lateInit, upToDate, last) ==
    [op |-> "Observe", err |-> nil, cause |-> "none", exists |-> exists,
     upToDate |-> upToDate, lateInit |-> lateInit, details |-> {}, client |-> FALSE,
     prev |-> last]

\* the cursors a successful Query can return: none has been closed, and the
\* Close of one may return an error; a cursor of a call that discards what
\* Close returns (defer iter.Close()) is kept without it
Cursors(discarded) ==
    {[closes |-> 0, closeErr |-> e] : e \in IF discarded THEN {FALSE} ELSE BOOLEAN}

\* iter.Close()
Close(c) == [c EXCEPT !.closes = @ + 1]

\* variant without the deferred calls
DeferredCloseNone(cursors) == cursors

\* defer iter.Close(), defer func() { ... existsIter.Close() ... }(): at the
\* return of the call every cursor whose defer statement was reached is
\* closed
DeferredClose(cursors) == [i \in DOMAIN cursors |-> Close(cursors[i])]

\* if closeErr := iter.Close(); closeErr != nil && err == nil { err = ... }:
\* the deferred function assigns to the local variable err after the
\* return statement has set the results, which are not named, so the call
\* returns what the return statement said
AfterDeferred(result, cursors) == result

\* a database call fails: freely in the unit runs, within the budget in the
\* scheduled runs
Fails(bounded) ==
    IF bounded THEN failBudget > 0 /\ failBudget' = failBudget - 1
    ELSE UNCHANGED failBudget

Succeeds == UNCHANGED failBudget

\* history of the scheduled runs: the privileges status has ever recorded
Tracked(bounded, privileges) ==
    IF bounded THEN gTracked \cup Range(privileges) ELSE gTracked

\* history of the unit runs: the call that completed before this Observe
Previous(bounded) == IF bounded THEN "none" ELSE Summary(res)

\* history of the scheduled runs: the failing statement was not the first
Partial(bounded, issued) ==
    IF bounded THEN gPartial \/ Len(issued) > 1 ELSE gPartial

\* The Grant as a caller hands it to the engine: any privilege list, the
\* status an earlier spec left behind (the normalised form of some list of
\* distinct privileges, as in grant_test.go:287-300; a status that repeats a
\* privilege arises in the runs, from a spec that repeats it), and any live
\* permission set.
GrantInit ==
    /\ kind = "Grant"
    /\ mg = "Grant"
    /\ KeyspaceIdle
    /\ RoleIdle
    /\ gDesired \in GrantPrivileges
    /\ gStatus \in {replaceUnderscoreWithSpace(d) : d \in {p \in GrantPrivileges : NoRepeat(p)}}
    /\ gAvailable = FALSE
    /\ gLive \in SUBSET Range(replaceUnderscoreWithSpace(<<AllPermissions, Select, Modify>>))
    /\ pc = "idle"
    /\ gI = 0
    /\ log = <<>>
    /\ pre = gStatus
    /\ res = NoCall
    /\ gTracked = {}
    /\ gPartial = FALSE

(***************************************************************************)
(* Grant: Observe                                                          *)
(***************************************************************************)
\* the verdict of Observe on a Grant with this spec and status
\* (grant.go:150-200)
GrantObserveOf(desired, status, rows, order) ==
    LET privileges == replaceUnderscoreWithSpace(desired)
        observedPermissions == ObservedPermissions(rows)
        desiredPermissions == DesiredPermissions(privileges)
        visit == VisitDesired(order, observedPermissions, FALSE)
        upToDate == VisitStatus(status, desiredPermissions, visit.upToDate)
    IN  [resourceExists |-> visit.resourceExists,
         upToDate |-> upToDate,
         privileges |-> IF upToDate THEN privileges ELSE status]

\* variant that writes the desired list to status whatever the verdict
GrantObserveResultAlways(rows, order) ==
    LET privileges == replaceUnderscoreWithSpace(gDesired)
        observedPermissions == ObservedPermissions(rows)
        desiredPermissions == Range(privileges)
        upToDate == /\ desiredPermissions \subseteq observedPermissions
                    /\ Range(gStatus) \subseteq desiredPermissions
    IN  [resourceExists |-> desiredPermissions \cap observedPermissions # {},
         upToDate |-> upToDate,
         privileges |-> privileges]

GrantObserveResult(rows, order) == GrantObserveOf(gDesired, gStatus, rows, order)

GrantObserve(bounded) ==
    /\ GrantFrame
    /\ UNCHANGED ctx
    /\ Accepts("Grant")
    /\ pc = "idle"
    /\ log' = <<PermissionsQuery>>
    /\ pre' = gStatus
    /\ UNCHANGED <<gDesired, gLive, pc, gI, gPartial>>
    /\ \/ /\ Fails(bounded)
          /\ res' = Wrapped("Observe", errGrantObserve, errBoom)
          /\ cur' = <<>>
          /\ UNCHANGED <<gStatus, gAvailable, gTracked>>
       \/ /\ Succeeds
          /\ \E iter \in Cursors(TRUE) : cur' = DeferredClose(<<iter>>)
          /\ \E rows \in QueryRows(gLive) :
             \E order \in Orders(DesiredPermissions(replaceUnderscoreWithSpace(gDesired))) :
                LET r == GrantObserveResult(rows, order)
                IN  /\ gStatus' = r.privileges
                    /\ gTracked' = Tracked(bounded, r.privileges)
                    /\ gAvailable' = (gAvailable \/ r.resourceExists)
                    /\ res' = ExternalObservation(r.resourceExists, FALSE, r.upToDate,
                                                      Previous(bounded))

(***************************************************************************)
(* Grant: the loops of Create, Update and Delete                           *)
(***************************************************************************)
\* history of the unit runs, kept while a call is in flight: the Update
\* follows a drift verdict, the Create follows a Create that returned no
\* error
Carried(entry) ==
    IF entry = "update_grant" /\ Drifted(res) THEN "Drifted"
    ELSE IF entry = "create" /\ Summary(res) = "Create" THEN "Create"
    ELSE "none"

\* a call starts: its locals are read, nothing has been issued yet
GrantCall(entry) ==
    /\ GrantFrame
    /\ UNCHANGED ctx
    /\ cur' = <<>>
    /\ Accepts("Grant")
    /\ pc = "idle"
    /\ pc' = entry
    /\ gI' = 1
    /\ log' = <<>>
    /\ pre' = gStatus
    /\ res' = [NoCall EXCEPT !.prev = Carried(entry)]
    /\ UNCHANGED <<gDesired, gStatus, gAvailable, gLive, gTracked, gPartial, failBudget>>

\* the call returns without an error
GrantReturn(op) ==
    /\ pc' = "idle"
    /\ gI' = 0
    /\ res' = [Returned(op, nil) EXCEPT !.prev = res.prev]
    /\ UNCHANGED <<log, gLive, gPartial, failBudget>>

\* the context of a call ends with the call
Ended(position) == IF position = "idle" THEN "live" ELSE ctx

\* the caller's cancellation signal fires while a call of several
\* statements is in flight
Cancel ==
    /\ kind = "Grant"
    /\ pc \in {"create", "update_grant", "update_revoke", "delete"}
    /\ ctx = "live"
    /\ ctx' = "canceled"
    /\ UNCHANGED cur
    /\ UNCHANGED <<pair, kind, mg, pc, log, pre, res, failBudget, kDesired, kLive, rDesired, rLive,
                   gvars>>

\* context.Canceled
errCanceled == "context canceled"

\* the database client runs a statement of a live context only
ExecRuns == ctx = "live"

\* the error of a statement that did not run or failed
ExecErr == IF ctx = "canceled" THEN errCanceled ELSE errBoom

\* variant that goes on to the next statement when one fails
GrantExecIgnoring(bounded, query, op, label) ==
    /\ log' = Append(log, query)
    /\ \/ /\ Succeeds
          /\ ExecRuns
          /\ gLive' = DbExecGrant(gLive, query)
       \/ /\ Fails(bounded)
          /\ UNCHANGED gLive
    /\ gI' = gI + 1
    /\ UNCHANGED <<pc, res, gPartial>>

\* variant in which a failed GRANT of Update goes on to the revoke loop
GrantExecSkipping(bounded, query, op, label) ==
    /\ log' = Append(log, query)
    /\ \/ /\ Succeeds
          /\ gLive' = IF query.verb = "GRANT" THEN gLive \cup {query.priv}
                      ELSE gLive \ {query.priv}
          /\ gI' = gI + 1
          /\ UNCHANGED <<pc, res, gPartial>>
       \/ /\ Fails(bounded)
          /\ IF pc = "update_grant"
             THEN pc' = "update_revoke" /\ gI' = 1 /\ UNCHANGED <<res, gPartial>>
             ELSE /\ pc' = "idle"
                  /\ gI' = 0
                  /\ res' = Wrapped(op, label, errBoom)
                  /\ UNCHANGED gPartial
          /\ UNCHANGED gLive

\* variant in which a failed statement takes back what the call granted
GrantExecRollingBack(bounded, query, op, label) ==
    /\ log' = Append(log, query)
    /\ \/ /\ Succeeds
          /\ gLive' = IF query.verb = "GRANT" THEN gLive \cup {query.priv}
                      ELSE gLive \ {query.priv}
          /\ gI' = gI + 1
          /\ UNCHANGED <<pc, res, gPartial>>
       \/ /\ Fails(bounded)
          /\ pc' = "idle"
          /\ gI' = 0
          /\ res' = Wrapped(op, label, errBoom)
          /\ gLive' = gLive \ {log[i].priv : i \in DOMAIN log}
          /\ UNCHANGED gPartial

\* if err := c.db.Exec(ctx, query); err != nil { return ..., errors.Wrap(err, label) }
GrantExec(bounded, query, op, label) ==
    /\ log' = Append(log, query)
    /\ \/ /\ Succeeds
          /\ ExecRuns
          /\ gLive' = DbExecGrant(gLive, query)
          /\ gI' = gI + 1
          /\ UNCHANGED <<pc, res, gPartial>>
       \/ /\ Fails(bounded)
          /\ pc' = "idle"
          /\ gI' = 0
          /\ res' = Wrapped(op, label, ExecErr)
          /\ gPartial' = Partial(bounded, log')
          /\ UNCHANGED gLive

(***************************************************************************)
(* Grant: Create                                                           *)
(***************************************************************************)
GrantCreate == GrantCall("create")

GrantCreateStep(bounded) ==
    /\ GrantFrame
    /\ UNCHANGED mg
    /\ pc = "create"
    /\ LET privileges == replaceUnderscoreWithSpace(gDesired)
       IN  IF gI > Len(privileges)
           THEN GrantReturn("Create")
           ELSE GrantExec(bounded, GrantQuery(privileges[gI]), "Create", errGrantCreate)
    /\ UNCHANGED <<gDesired, gStatus, gAvailable, pre, gTracked>>
    /\ ctx' = Ended(pc')
    /\ UNCHANGED cur

(***************************************************************************)
(* Grant: Update                                                           *)
(***************************************************************************)
GrantUpdate == GrantCall("update_grant")

\* the loop over the desired privileges (grant.go:241-247)
GrantUpdateGrantStep(bounded) ==
    /\ GrantFrame
    /\ UNCHANGED mg
    /\ pc = "update_grant"
    /\ LET privileges == replaceUnderscoreWithSpace(gDesired)
       IN  IF gI > Len(privileges)
           THEN /\ pc' = "update_revoke"
                /\ gI' = 1
                /\ UNCHANGED <<log, gLive, res, gPartial, failBudget>>
           ELSE GrantExec(bounded, GrantQuery(privileges[gI]), "Update", errGrantCreate)
    /\ UNCHANGED <<gDesired, gStatus, gAvailable, pre, gTracked>>
    /\ ctx' = Ended(pc')
    /\ UNCHANGED cur

\* variant that revokes every status entry
ToRevokeAlways(p, desiredPermissions) == TRUE

\* if !desiredPermissions[p] { REVOKE p }
ToRevoke(p, desiredPermissions) == p \notin desiredPermissions

\* the loop over Status.AtProvider.Privileges and the status write
\* (grant.go:249-261)
GrantUpdateRevokeStep(bounded) ==
    /\ GrantFrame
    /\ UNCHANGED mg
    /\ pc = "update_revoke"
    /\ LET privileges == replaceUnderscoreWithSpace(gDesired)
           desiredPermissions == DesiredPermissions(privileges)
           atProviderPrivileges == gStatus
       IN  IF gI > Len(atProviderPrivileges)
           THEN /\ gStatus' = privileges
                /\ gTracked' = Tracked(bounded, privileges)
                /\ GrantReturn("Update")
           ELSE IF ToRevoke(atProviderPrivileges[gI], desiredPermissions)
           THEN /\ GrantExec(bounded, RevokeQuery(atProviderPrivileges[gI]), "Update",
                             errGrantDelete)
                /\ UNCHANGED <<gStatus, gTracked>>
           ELSE /\ gI' = gI + 1
                /\ UNCHANGED <<gStatus, gTracked, pc, res, log, gLive, gPartial, failBudget>>
    /\ UNCHANGED <<gDesired, gAvailable, pre>>
    /\ ctx' = Ended(pc')
    /\ UNCHANGED cur

(***************************************************************************)
(* Grant: Delete                                                           *)
(***************************************************************************)
GrantDelete == GrantCall("delete")

\* variant that revokes what status lists
DeleteStatusPrivileges == gStatus

\* privileges := replaceUnderscoreWithSpace(cr.Spec.ForProvider.Privileges)
DeletePrivileges == replaceUnderscoreWithSpace(gDesired)

GrantDeleteStep(bounded) ==
    /\ GrantFrame
    /\ UNCHANGED mg
    /\ pc = "delete"
    /\ LET privileges == DeletePrivileges
       IN  IF gI > Len(privileges)
           THEN GrantReturn("Delete")
           ELSE GrantExec(bounded, RevokeQuery(privileges[gI]), "Delete", errGrantDelete)
    /\ UNCHANGED <<gDesired, gStatus, gAvailable, pre, gTracked>>
    /\ ctx' = Ended(pc')
    /\ UNCHANGED cur

(***************************************************************************)
(* Keyspace                                                                *)
(***************************************************************************)
errCheckKeyspace == "failed to check keyspace existence"
errSelectKeyspace == "cannot select keyspace"
errScanKeyspace == "failed to scan keyspace attributes"
errCreateKeyspace == "cannot create keyspace"
errUpdateKeyspace == "cannot update keyspace"
errDropKeyspace == "cannot drop keyspace"

\* a call on the Keyspace is one step; it leaves the other kinds alone
KeyspaceFrame ==
    /\ kind = "Keyspace"
    /\ UNCHANGED ctx
    /\ cur' = <<>>
    /\ pc = "idle"
    /\ Accepts("Keyspace")
    /\ UNCHANGED <<pair, kind, pc, failBudget, rDesired, rLive, gvars>>

KeyspaceInit ==
    /\ kind = "Keyspace"
    /\ mg = "Keyspace"
    /\ kDesired \in [class : {Nil} \cup {Ptr(c) : c \in ReplicationClasses},
                     factor : {Nil} \cup {Ptr(f) : f \in ReplicationFactors},
                     durable : {Nil} \cup {Ptr(d) : d \in BOOLEAN}]
    /\ kLive \in {Absent} \cup {{r} : r \in KeyspaceRows}
    /\ RoleIdle
    /\ GrantIdle
    /\ pc = "idle"
    /\ log = <<>>
    /\ pre = kDesired
    /\ res = NoCall

\* variant that leaves unset what the replication map does not hold
KeyspaceObservedUnset(row) ==
    LET replicationMap == row.replication
    IN  [class |-> IF "class" \in DOMAIN replicationMap
                   THEN Ptr(TrimPrefix(replicationMap["class"], LocatorPrefix))
                   ELSE Nil,
         factor |-> IF /\ "replication_factor" \in DOMAIN replicationMap
                       /\ ~Atoi(replicationMap["replication_factor"]).err
                    THEN Ptr(Atoi(replicationMap["replication_factor"]).val)
                    ELSE Nil,
         durable |-> Ptr(row.durable_writes)]

\* the observed parameters built from the details row (part_001:166-197)
KeyspaceObserved(row) ==
    LET replicationMap == row.replication
    IN  [class |-> Ptr(IF "class" \in DOMAIN replicationMap
                       THEN TrimPrefix(replicationMap["class"], LocatorPrefix)
                       ELSE <<>>),
         factor |-> Ptr(IF "replication_factor" \in DOMAIN replicationMap
                        THEN Atoi(replicationMap["replication_factor"]).val
                        ELSE 0),
         durable |-> Ptr(row.durable_writes)]

\* variant that does not compare the replication factor
KeyspaceUpToDateNoFactor(observed, desired) ==
    /\ observed.class # Nil /\ desired.class # Nil
    /\ Deref(observed.class) = Deref(desired.class)
    /\ observed.durable # Nil /\ desired.durable # Nil
    /\ Deref(observed.durable) = Deref(desired.durable)

KeyspaceUpToDate(observed, desired) ==
    IF observed.class = Nil \/ desired.class = Nil
       \/ Deref(observed.class) # Deref(desired.class)
    THEN FALSE
    ELSE IF observed.factor = Nil \/ desired.factor = Nil
            \/ Deref(observed.factor) # Deref(desired.factor)
    THEN FALSE
    ELSE IF observed.durable = Nil \/ desired.durable = Nil
            \/ Deref(observed.durable) # Deref(desired.durable)
    THEN FALSE
    ELSE TRUE

\* variant that reports a fill whether or not a parameter was unset
KeyspaceLateInitAlways(observed, desired) ==
    [desired |-> [class |-> IF desired.class = Nil THEN observed.class ELSE desired.class,
                  factor |-> IF desired.factor = Nil THEN observed.factor ELSE desired.factor,
                  durable |-> IF desired.durable = Nil THEN observed.durable
                              ELSE desired.durable],
     li |-> TRUE]

\* lateInit: the filled parameters and whether anything was filled
KeyspaceLateInit(observed, desired) ==
    [desired |-> [class |-> IF desired.class = Nil THEN observed.class ELSE desired.class,
                  factor |-> IF desired.factor = Nil THEN observed.factor ELSE desired.factor,
                  durable |-> IF desired.durable = Nil THEN observed.durable
                              ELSE desired.durable],
     li |-> (desired.class = Nil \/ desired.factor = Nil \/ desired.durable = Nil)]

\* the verdict as Observe comes to it without filling: the comparison is
\* made on the desired parameters as the caller handed them
KeyspaceVerdictCompareFirst(observed, desired) ==
    [desired |-> KeyspaceLateInit(observed, desired).desired,
     li |-> KeyspaceLateInit(observed, desired).li,
     upToDate |-> KeyspaceUpToDate(observed, desired)]

\* ResourceLateInitialized: lateInit(observed, &cr.Spec.ForProvider),
\* ResourceUpToDate:        upToDate(observed, &cr.Spec.ForProvider)
\* the calls of the literal run in the order written: upToDate reads the
\* parameters lateInit has filled
KeyspaceVerdict(observed, desired) ==
    LET filled == KeyspaceLateInit(observed, desired)
    IN  [desired |-> filled.desired,
         li |-> filled.li,
         upToDate |-> KeyspaceUpToDate(observed, filled.desired)]

\* Observe up to the scan of the existence query (part_001:144-164)
KeyspaceObserve ==
    /\ kind = "Keyspace"
    /\ UNCHANGED ctx
    /\ pc = "idle"
    /\ Accepts("Keyspace")
    /\ UNCHANGED <<pair, kind, failBudget, rDesired, rLive, gvars, kDesired, kLive>>
    /\ log' = <<existsQuery>>
    /\ pre' = kDesired
    /\ \/ /\ res' = Wrapped("Observe", errCheckKeyspace, errBoom)
          /\ cur' = <<>>
          /\ pc' = "idle"
       \/ /\ kLive = Absent
          /\ \E existsIter \in Cursors(FALSE) : cur' = DeferredClose(<<existsIter>>)
          /\ res' = AfterDeferred(ExternalObservation(FALSE, FALSE, FALSE, Summary(res)),
                                  cur')
          /\ pc' = "idle"
       \/ /\ kLive # Absent
          /\ \E existsIter \in Cursors(FALSE) : cur' = <<existsIter>>
          /\ res' = [NoCall EXCEPT !.prev = Summary(res)]
          /\ pc' = "details"

\* another party drops the keyspace between the two queries of an Observe
KeyspaceDropped ==
    /\ kind = "Keyspace"
    /\ UNCHANGED <<ctx, cur>>
    /\ pc = "details"
    /\ kLive # Absent
    /\ kLive' = Absent
    /\ UNCHANGED <<pair, kind, mg, pc, log, pre, res, failBudget, kDesired, rDesired, rLive, gvars>>

\* Observe from the details query on (part_001:166-205)
KeyspaceObserveDetails ==
    /\ kind = "Keyspace"
    /\ UNCHANGED ctx
    /\ pc = "details"
    /\ pc' = "idle"
    /\ log' = Append(log, detailsQuery)
    /\ UNCHANGED <<pair, kind, mg, pre, failBudget, rDesired, rLive, gvars, kLive>>
    /\ \/ /\ cur' = DeferredClose(cur)
          /\ res' = AfterDeferred(Wrapped("Observe", errSelectKeyspace, errBoom), cur')
          /\ UNCHANGED kDesired
       \/ /\ \E detailsIter \in Cursors(FALSE) : cur' = DeferredClose(Append(cur, detailsIter))
          /\ \/ /\ kLive = Absent
                /\ res' = AfterDeferred(Returned("Observe", errScanKeyspace), cur')
                /\ UNCHANGED kDesired
             \/ /\ kLive # Absent
                /\ \E row \in kLive :
                      LET verdict == KeyspaceVerdict(KeyspaceObserved(row), kDesired)
                      IN  /\ kDesired' = verdict.desired
                          /\ res' = AfterDeferred(
                                       ExternalObservation(TRUE, verdict.li,
                                                           verdict.upToDate, res.prev),
                                       cur')

\* variant whose durable writes are the zero value when unset
KeyspaceDefaultsDurable(params) ==
    [strategy |-> IF params.class # Nil THEN Deref(params.class) ELSE defaultStrategy,
     replicationFactor |-> IF params.factor # Nil THEN Deref(params.factor)
                           ELSE defaultReplicas,
     durableWrites |-> params.durable # Nil /\ Deref(params.durable)]

\* variant that never takes the replication factor of the parameters
KeyspaceDefaultsFactor(params) ==
    [strategy |-> IF params.class # Nil THEN Deref(params.class) ELSE defaultStrategy,
     replicationFactor |-> defaultReplicas,
     durableWrites |-> IF params.durable # Nil THEN Deref(params.durable) ELSE TRUE]

\* the values Create and Update put in the statement (part_001:214-228)
KeyspaceDefaults(params) ==
    [strategy |-> IF params.class # Nil THEN Deref(params.class) ELSE defaultStrategy,
     replicationFactor |-> IF params.factor # Nil THEN Deref(params.factor)
                           ELSE defaultReplicas,
     durableWrites |-> IF params.durable # Nil THEN Deref(params.durable) ELSE TRUE]

KeyspaceCreate ==
    /\ KeyspaceFrame
    /\ pre' = kDesired
    /\ UNCHANGED kDesired
    /\ LET v == KeyspaceDefaults(kDesired)
           query == KeyspaceQuery("CREATE KEYSPACE IF NOT EXISTS", v.strategy,
                                  v.replicationFactor, v.durableWrites)
       IN  /\ log' = <<query>>
           /\ \/ /\ res' = Wrapped("Create", errCreateKeyspace, errBoom)
                 /\ UNCHANGED kLive
              \/ \E o \in DbOutcome(kLive, query, DbKeyspaceRows(query)) :
                    /\ kLive' = o.live
                    /\ res' = IF o.cause = "none" THEN Created(kLive)
                              ELSE Wrapped("Create", errCreateKeyspace, o.cause)

KeyspaceUpdate ==
    /\ KeyspaceFrame
    /\ pre' = kDesired
    /\ UNCHANGED kDesired
    /\ LET v == KeyspaceDefaults(kDesired)
           query == KeyspaceQuery("ALTER KEYSPACE", v.strategy, v.replicationFactor,
                                  v.durableWrites)
       IN  /\ log' = <<query>>
           /\ \/ /\ res' = Wrapped("Update", errUpdateKeyspace, errBoom)
                 /\ UNCHANGED kLive
              \/ \E o \in DbOutcome(kLive, query, DbKeyspaceRows(query)) :
                    /\ kLive' = o.live
                    /\ res' = IF o.cause = "none" THEN Updated(res)
                              ELSE Wrapped("Update", errUpdateKeyspace, o.cause)

KeyspaceDelete ==
    /\ KeyspaceFrame
    /\ pre' = kDesired
    /\ UNCHANGED kDesired
    /\ LET query == DropQuery("DROP KEYSPACE IF EXISTS", KeyspaceName)
       IN  /\ log' = <<query>>
           /\ \/ /\ res' = Wrapped("Delete", errDropKeyspace, errBoom)
                 /\ UNCHANGED kLive
              \/ \E o \in DbOutcome(kLive, query, {}) :
                    /\ kLive' = o.live
                    /\ res' = IF o.cause = "none" THEN Deleted(kLive)
                              ELSE Wrapped("Delete", errDropKeyspace, o.cause)

(***************************************************************************)
(* Role                                                                    *)
(***************************************************************************)
errSelectRole == "cannot select role"
errCreateRole == "cannot create role"
errUpdateRole == "cannot update role"
errDropRole == "cannot drop role"
errGenerate == "cannot generate password"

RoleFrame ==
    /\ kind = "Role"
    /\ UNCHANGED ctx
    /\ pc = "idle"
    /\ Accepts("Role")
    /\ UNCHANGED <<pair, kind, pc, failBudget, kDesired, kLive, gvars>>

RoleRows ==
    [is_superuser : BOOLEAN, can_login : BOOLEAN, password : {"pw0"}]

RoleInit ==
    /\ kind = "Role"
    /\ mg = "Role"
    /\ rDesired \in [superuser : {Nil} \cup {Ptr(b) : b \in BOOLEAN},
                     login : {Nil} \cup {Ptr(b) : b \in BOOLEAN}]
    /\ rLive \in {Absent} \cup {{r} : r \in RoleRows}
    /\ KeyspaceIdle
    /\ GrantIdle
    /\ pc = "idle"
    /\ log = <<>>
    /\ pre = rDesired
    /\ res = NoCall

\* observed := &RoleParameters{Privileges: {SuperUser: &isSuperuser, Login: &canLogin}}
RoleObserved(row) == [superuser |-> Ptr(row.is_superuser), login |-> Ptr(row.can_login)]

RoleUpToDate(observed, desired) ==
    IF observed.superuser = Nil \/ desired.superuser = Nil
       \/ Deref(observed.superuser) # Deref(desired.superuser)
    THEN FALSE
    ELSE IF observed.login = Nil \/ desired.login = Nil
            \/ Deref(observed.login) # Deref(desired.login)
    THEN FALSE
    ELSE TRUE

\* variant that fills the superuser flag only
RoleLateInitSuperUserOnly(observed, desired) ==
    [desired |-> [superuser |-> IF desired.superuser = Nil THEN observed.superuser
                                ELSE desired.superuser,
                  login |-> desired.login],
     li |-> (desired.superuser = Nil)]

\* variant that takes every flag from the database
RoleLateInitOverwriting(observed, desired) == [desired |-> observed, li |-> TRUE]

RoleLateInit(observed, desired) ==
    [desired |-> [superuser |-> IF desired.superuser = Nil THEN observed.superuser
                                ELSE desired.superuser,
                  login |-> IF desired.login = Nil THEN observed.login ELSE desired.login],
     li |-> (desired.superuser = Nil \/ desired.login = Nil)]

\* the verdict as Observe comes to it without filling first
RoleVerdictCompareFirst(observed, desired) ==
    [desired |-> RoleLateInit(observed, desired).desired,
     li |-> RoleLateInit(observed, desired).li,
     upToDate |-> RoleUpToDate(observed, desired)]

\* ResourceLateInitialized: lateInit(...), ResourceUpToDate: upToDate(...),
\* in the order written
RoleVerdict(observed, desired) ==
    LET filled == RoleLateInit(observed, desired)
    IN  [desired |-> filled.desired,
         li |-> filled.li,
         upToDate |-> RoleUpToDate(observed, filled.desired)]

RoleObserve ==
    /\ RoleFrame
    /\ log' = <<RoleSelectQuery>>
    /\ pre' = rDesired
    /\ UNCHANGED rLive
    /\ \/ /\ res' = Wrapped("Observe", errSelectRole, errBoom)
          /\ cur' = <<>>
          /\ UNCHANGED rDesired
       \/ /\ \E iter \in Cursors(TRUE) : cur' = DeferredClose(<<iter>>)
          /\ rLive = Absent
          /\ res' = ExternalObservation(FALSE, FALSE, FALSE, Summary(res))
          /\ UNCHANGED rDesired
       \/ /\ \E iter \in Cursors(TRUE) : cur' = DeferredClose(<<iter>>)
          /\ rLive # Absent
          /\ \E row \in rLive :
                LET verdict == RoleVerdict(RoleObserved(row), rDesired)
                IN  /\ rDesired' = verdict.desired
                    /\ res' = ExternalObservation(TRUE, verdict.li, verdict.upToDate,
                                                      Summary(res))

\* params.Privileges.X != nil && *params.Privileges.X
RoleFlag(p) == p # Nil /\ Deref(p)

\* the role row a CREATE ROLE statement makes
DbRoleRow(stmt) ==
    [is_superuser |-> CqlBool(stmt.superuser), can_login |-> CqlBool(stmt.login),
     password |-> stmt.password]

RoleCreate ==
    /\ RoleFrame
    /\ cur' = <<>>
    /\ pre' = rDesired
    /\ UNCHANGED rDesired
    /\ \/ /\ res' = Returned("Create", errGenerate)
          /\ log' = <<>>
          /\ UNCHANGED rLive
       \/ \E pw \in Passwords :
            LET query == RoleQuery("CREATE ROLE IF NOT EXISTS", RoleFlag(rDesired.superuser),
                                   RoleFlag(rDesired.login), pw)
            IN  /\ log' = <<query>>
                /\ \/ /\ res' = Wrapped("Create", errCreateRole, errBoom)
                      /\ UNCHANGED rLive
                   \/ \E o \in DbOutcome(rLive, query, {DbRoleRow(query)}) :
                         /\ rLive' = o.live
                         /\ res' = IF o.cause = "none"
                                   THEN [Created(rLive) EXCEPT
                                           !.details = GetConnectionDetails(RoleName, pw)]
                                   ELSE Wrapped("Create", errCreateRole, o.cause)

\* ALTER ROLE keeps the password of the role
RoleUpdate ==
    /\ RoleFrame
    /\ cur' = <<>>
    /\ pre' = rDesired
    /\ UNCHANGED rDesired
    /\ LET query == RoleQuery("ALTER ROLE", RoleFlag(rDesired.superuser),
                              RoleFlag(rDesired.login), "")
       IN  /\ log' = <<query>>
           /\ \/ /\ res' = Wrapped("Update", errUpdateRole, errBoom)
                 /\ UNCHANGED rLive
              \/ \E o \in DbOutcome(rLive, query,
                                    {[DbRoleRow(query) EXCEPT !.password = row.password] :
                                        row \in rLive}) :
                    /\ rLive' = o.live
                    /\ res' = IF o.cause = "none" THEN Updated(res)
                              ELSE Wrapped("Update", errUpdateRole, o.cause)

RoleDelete ==
    /\ RoleFrame
    /\ cur' = <<>>
    /\ pre' = rDesired
    /\ UNCHANGED rDesired
    /\ LET query == DropQuery("DROP ROLE IF EXISTS", RoleName)
       IN  /\ log' = <<query>>
           /\ \/ /\ res' = Wrapped("Delete", errDropRole, errBoom)
                 /\ UNCHANGED rLive
              \/ \E o \in DbOutcome(rLive, query, {}) :
                    /\ rLive' = o.live
                    /\ res' = IF o.cause = "none" THEN Deleted(rLive)
                              ELSE Wrapped("Delete", errDropRole, o.cause)

\* what a call finds in the object under reconciliation
Found ==
    IF kind = "Grant" THEN gStatus
    ELSE IF kind = "Keyspace" THEN kDesired
    ELSE rDesired

(***************************************************************************)
(* Connect, of the connector of each kind                                  *)
(***************************************************************************)
errTrackPCUsage == "cannot track ProviderConfig usage"
errGetPC == "cannot get ProviderConfig"
errGetCreds == "cannot get credentials"
errParseCreds == "failed to parse credentials JSON"

\* the calls of Connect after the type assertion, in the order written
ConnectCalls ==
    <<"usage.Track", "kube.Get", "CommonCredentialExtractor", "json.Unmarshal", "newClient">>

\* variant that fetches the provider config before it tracks its usage
ConnectRunGetFirst(failing) ==
    IF "kube.Get" \in failing
    THEN [calls |-> <<"kube.Get">>, err |-> errGetPC, client |-> FALSE]
    ELSE IF "usage.Track" \in failing
    THEN [calls |-> <<"kube.Get", "usage.Track">>, err |-> errTrackPCUsage, client |-> FALSE]
    ELSE IF "CommonCredentialExtractor" \in failing
    THEN [calls |-> <<"kube.Get", "usage.Track", "CommonCredentialExtractor">>,
          err |-> errGetCreds, client |-> FALSE]
    ELSE IF "json.Unmarshal" \in failing
    THEN [calls |-> <<"kube.Get", "usage.Track", "CommonCredentialExtractor",
                      "json.Unmarshal">>,
          err |-> errParseCreds, client |-> FALSE]
    ELSE [calls |-> <<"kube.Get", "usage.Track", "CommonCredentialExtractor",
                      "json.Unmarshal", "newClient">>,
          err |-> nil, client |-> TRUE]

\* the body of Connect after the type assertion, failing being the calls
\* that return an error if they are made: the calls made, the label of the
\* error returned and whether an external client is returned
ConnectRun(failing) ==
    IF "usage.Track" \in failing
    THEN [calls |-> SubSeq(ConnectCalls, 1, 1), err |-> errTrackPCUsage, client |-> FALSE]
    ELSE IF "kube.Get" \in failing
    THEN [calls |-> SubSeq(ConnectCalls, 1, 2), err |-> errGetPC, client |-> FALSE]
    ELSE IF "CommonCredentialExtractor" \in failing
    THEN [calls |-> SubSeq(ConnectCalls, 1, 3), err |-> errGetCreds, client |-> FALSE]
    ELSE IF "json.Unmarshal" \in failing
    THEN [calls |-> SubSeq(ConnectCalls, 1, 4), err |-> errParseCreds, client |-> FALSE]
    ELSE [calls |-> ConnectCalls, err |-> nil, client |-> TRUE]

\* Connect handed an object of the connector's kind
Connect ==
    /\ pc = "idle"
    /\ cur' = <<>>
    /\ Accepts(kind)
    /\ \E failing \in {{}} \cup {{ConnectCalls[i]} : i \in 1..4} :
          LET run == ConnectRun(failing)
          IN  /\ log' = [i \in DOMAIN run.calls |-> [verb |-> run.calls[i]]]
              /\ res' = IF run.err = nil
                        THEN [Returned("Connect", nil) EXCEPT !.client = run.client]
                        ELSE [Wrapped("Connect", run.err, errBoom) EXCEPT
                                !.client = run.client]
    /\ pre' = Found
    /\ UNCHANGED <<pair, kind, ctx, pc, failBudget, kDesired, kLive, rDesired, rLive, gvars>>

(***************************************************************************)
(* Calls with an object of another kind                                    *)
(***************************************************************************)
errNotGrant == "managed resource is not a Grant custom resource"
errNotKeyspace == "managed resource is not a Keyspace custom resource"
errNotRole == "managed resource is not a Role custom resource"

\* the kind-mismatch error of the controller of a kind
errNotKind(k) ==
    IF k = "Grant" THEN errNotGrant
    ELSE IF k = "Keyspace" THEN errNotKeyspace
    ELSE errNotRole

\* the methods that begin with the type assertion
Methods == {"Connect", "Observe", "Create", "Update", "Delete"}

\* if !ok { return ..., errors.New(errNotGrant) }: the first statement of
\* every method of every controller
NotKind ==
    /\ pc = "idle"
    /\ UNCHANGED ctx
    /\ cur' = <<>>
    /\ \E op \in Methods, obj \in Handed :
          /\ ~IsKind(obj, kind)
          /\ mg' = obj
          /\ res' = Returned(op, errNotKind(kind))
    /\ log' = <<>>
    /\ pre' = Found
    /\ UNCHANGED <<pair, kind, pc, failBudget, kDesired, kLive, rDesired, rLive, gvars>>

(***************************************************************************)
(* Unit runs: any call on the object under reconciliation, of one of the   *)
(* three kinds, in any order, database calls failing freely                *)
(***************************************************************************)
Init ==
    /\ GrantInit \/ KeyspaceInit \/ RoleInit
    /\ failBudget = 0
    /\ ctx = "live"
    /\ cur = <<>>
    /\ pair = NoPair

Next ==
    \/ GrantObserve(FALSE)
    \/ GrantCreate
    \/ GrantCreateStep(FALSE)
    \/ GrantUpdate
    \/ GrantUpdateGrantStep(FALSE)
    \/ GrantUpdateRevokeStep(FALSE)
    \/ GrantDelete
    \/ GrantDeleteStep(FALSE)
    \/ KeyspaceObserve
    \/ KeyspaceDropped
    \/ KeyspaceObserveDetails
    \/ KeyspaceCreate
    \/ KeyspaceUpdate
    \/ KeyspaceDelete
    \/ RoleObserve
    \/ RoleCreate
    \/ RoleUpdate
    \/ RoleDelete
    \/ NotKind
    \/ Cancel
    \/ Connect

Spec == Init /\ [][Next]_vars

(***************************************************************************)
(* Scheduled runs: the managed reconciler calls Observe, then Create when  *)
(* the Grant does not exist or Update when it is not up to date; the       *)
(* database fails at most MaxFailures calls and the spec stays as it is.   *)
(* The API server admits a privilege list of at least one item             *)
(* (grant_types.go:36).                                                    *)
(***************************************************************************)
SchedInit ==
    /\ kind = "Grant"
    /\ mg = "Grant"
    /\ KeyspaceIdle
    /\ RoleIdle
    /\ gDesired \in GrantPrivileges \ {<<>>}
    /\ gStatus \in {replaceUnderscoreWithSpace(d) : d \in {p \in GrantPrivileges : NoRepeat(p)}}
    /\ gAvailable = FALSE
    /\ gLive \in SUBSET Range(replaceUnderscoreWithSpace(<<AllPermissions, Select, Modify>>))
    /\ pc = "idle"
    /\ gI = 0
    /\ log = <<>>
    /\ pre = gStatus
    /\ res = NoCall
    /\ gTracked = Range(gStatus)
    /\ gPartial = FALSE
    /\ failBudget = MaxFailures
    /\ ctx = "live"
    /\ cur = <<>>
    /\ pair = NoPair

NeedsCreate == res.op = "Observe" /\ res.err = nil /\ ~res.exists

NeedsUpdate == res.op = "Observe" /\ res.err = nil /\ res.exists /\ ~res.upToDate

SchedObserve == ~NeedsCreate /\ ~NeedsUpdate /\ GrantObserve(TRUE)

SchedCreate == NeedsCreate /\ GrantCreate

SchedUpdate == NeedsUpdate /\ GrantUpdate

Reconcile ==
    \/ SchedObserve
    \/ SchedCreate
    \/ GrantCreateStep(TRUE)
    \/ SchedUpdate
    \/ GrantUpdateGrantStep(TRUE)
    \/ GrantUpdateRevokeStep(TRUE)

SchedNext == Reconcile

SchedSpec == SchedInit /\ [][SchedNext]_vars /\ WF_vars(Reconcile)

(***************************************************************************)
(* Paired runs: two declared Grants of distinct (role, keyspace) on one    *)
(* database. The managed reconciler runs the cycle of each (Observe, then  *)
(* Create, Update or Delete as the verdict asks), the statements of the    *)
(* two interleaved in any order, any database call failing. Beside the     *)
(* pair, each Grant runs the same cycle alone on a database of its own.    *)
(***************************************************************************)
OtherRole == "other_role"
OtherKeyspace == "other_keyspace"

\* the (role, keyspace) pairs of the database
Identity == [role : {GrantRole, OtherRole}, keyspace : {GrantKeyspace, OtherKeyspace}]

\* role, keyspace := cr.Spec.ForProvider.Role, cr.Spec.ForProvider.Keyspace of
\* the statements of a Grant
GrantQueryOf(o, privilege) ==
    [GrantQuery(privilege) EXCEPT !.keyspace = QuoteIdentifier(o.keyspace),
                                  !.role = QuoteIdentifier(o.role)]

RevokeQueryOf(o, privilege) ==
    [RevokeQuery(privilege) EXCEPT !.keyspace = QuoteIdentifier(o.keyspace),
                                   !.role = QuoteIdentifier(o.role)]

\* variant that asks for the permissions of one role whatever the Grant
PermissionsQueryOfOneRole(o) ==
    [PermissionsQuery EXCEPT !.resource = <<"'", "data/", o.keyspace, "'">>]

PermissionsQueryOf(o) ==
    [PermissionsQuery EXCEPT !.resource = <<"'", "data/", o.keyspace, "'">>,
                             !.args = <<o.role>>]

\* the (role, keyspace) a statement names: the bound role and the resource
\* of the query, the quoted keyspace and role of GRANT and REVOKE
Named(stmt) ==
    IF stmt.verb = "SELECT" THEN [role |-> stmt.args[1], keyspace |-> stmt.resource[3]]
    ELSE [role |-> stmt.role[2], keyspace |-> stmt.keyspace[2]]

\* the database runs a statement on the permission set of the pair it names
PairExec(db, stmt) == [db EXCEPT ![Named(stmt)] = DbExecGrant(@, stmt)]

PairQuery(db, stmt) == CHOOSE rows \in QueryRows(db[Named(stmt)]) : TRUE

\* Observe of a Grant (grant.go:144-207)
ObserveOf(o, db, fail, order) ==
    IF fail
    THEN [obj |-> [o EXCEPT !.res = Wrapped("Observe", errGrantObserve, errBoom)], db |-> db]
    ELSE LET r == GrantObserveOf(o.desired, o.status, PairQuery(db, PermissionsQueryOf(o)),
                                 order)
         IN  [obj |-> [o EXCEPT !.status = r.privileges,
                                !.res = ExternalObservation(r.resourceExists, FALSE,
                                                            r.upToDate, "none")],
              db |-> db]

\* if err := c.db.Exec(ctx, query); err != nil { return ..., errors.Wrap(err, label) }
ExecOf(o, db, fail, query, op, label) ==
    IF fail
    THEN [obj |-> [o EXCEPT !.pc = "idle", !.i = 0, !.res = Wrapped(op, label, errBoom)],
          db |-> db]
    ELSE [obj |-> [o EXCEPT !.i = @ + 1], db |-> PairExec(db, query)]

ReturnOf(o, db, op) ==
    [obj |-> [o EXCEPT !.pc = "idle", !.i = 0, !.res = Returned(op, nil)], db |-> db]

\* one turn of the loop of Create, Update or Delete the Grant is in
\* (grant.go:217-227, 241-261, 272-281)
LoopOf(o, db, fail) ==
    LET privileges == replaceUnderscoreWithSpace(o.desired)
        desiredPermissions == DesiredPermissions(privileges)
    IN  IF o.pc = "create"
        THEN IF o.i > Len(privileges) THEN ReturnOf(o, db, "Create")
             ELSE ExecOf(o, db, fail, GrantQueryOf(o, privileges[o.i]), "Create",
                         errGrantCreate)
        ELSE IF o.pc = "update_grant"
        THEN IF o.i > Len(privileges)
             THEN [obj |-> [o EXCEPT !.pc = "update_revoke", !.i = 1], db |-> db]
             ELSE ExecOf(o, db, fail, GrantQueryOf(o, privileges[o.i]), "Update",
                         errGrantCreate)
        ELSE IF o.pc = "update_revoke"
        THEN IF o.i > Len(o.status)
             THEN ReturnOf([o EXCEPT !.status = privileges], db, "Update")
             ELSE IF ToRevoke(o.status[o.i], desiredPermissions)
             THEN ExecOf(o, db, fail, RevokeQueryOf(o, o.status[o.i]), "Update",
                         errGrantDelete)
             ELSE [obj |-> [o EXCEPT !.i = @ + 1], db |-> db]
        ELSE IF o.i > Len(privileges) THEN ReturnOf(o, db, "Delete")
             ELSE ExecOf(o, db, fail, RevokeQueryOf(o, privileges[o.i]), "Delete",
                         errGrantDelete)

\* what the managed reconciler calls on a Grant no call of which is in
\* flight: Observe, and after a verdict Delete on a Grant under deletion
\* that exists, Create on one that does not exist, Update on one that is
\* not up to date
CallOf(o) ==
    IF o.res.op # "Observe" \/ o.res.err # nil THEN "observe"
    ELSE IF o.deleting THEN (IF o.res.exists THEN "delete" ELSE "observe")
    ELSE IF ~o.res.exists THEN "create"
    ELSE IF ~o.res.upToDate THEN "update_grant"
    ELSE "observe"

\* the next step of the cycle of a Grant
StepOf(o, db, fail, order) ==
    IF o.pc # "idle" THEN LoopOf(o, db, fail)
    ELSE IF CallOf(o) = "observe" THEN ObserveOf(o, db, fail, order)
    ELSE [obj |-> [o EXCEPT !.pc = CallOf(o), !.i = 1], db |-> db]

\* the privilege lists, the statuses and the live permission sets of the
\* paired Grants
PairDesired == {<<Select>>, <<AllPermissions, Select>>}
PairStatus == {<<>>, replaceUnderscoreWithSpace(<<Modify>>)}
PairLive == {{}, Range(replaceUnderscoreWithSpace(<<Select>>))}

\* a declared Grant no call of which has been made
Declared(id) ==
    [role : {id.role}, keyspace : {id.keyspace}, desired : PairDesired,
     status : PairStatus, deleting : BOOLEAN, pc : {"idle"}, i : {0}, res : {NoCall}]

IdOf(o) == [role |-> o.role, keyspace |-> o.keyspace]

PairInit ==
    /\ kind = "Grant"
    /\ mg = "Grant"
    /\ KeyspaceIdle
    /\ RoleIdle
    /\ GrantIdle
    /\ pc = "idle"
    /\ log = <<>>
    /\ pre = <<>>
    /\ res = NoCall
    /\ failBudget = 0
    /\ ctx = "live"
    /\ cur = <<>>
    /\ \E first \in Declared([role |-> GrantRole, keyspace |-> GrantKeyspace]) :
       \E id \in Identity \ {[role |-> GrantRole, keyspace |-> GrantKeyspace]} :
       \E second \in Declared(id) :
       \E live \in [{IdOf(first), id} -> PairLive] :
          LET db == [k \in Identity |-> IF k \in DOMAIN live THEN live[k] ELSE {}]
          IN  pair = [obj |-> <<first, second>>,
                      db |-> db,
                      alone |-> <<[obj |-> first, db |-> db], [obj |-> second, db |-> db]>>]

single == <<kind, mg, ctx, cur, pc, log, pre, res, failBudget, kDesired, kLive, rDesired, rLive,
            gvars>>

\* the Grant n of the pair takes its next step, and so does the same Grant
\* alone, the database answering both alike
PairRun(n, fail, order) ==
    LET together == StepOf(pair.obj[n], pair.db, fail, order)
        apart == StepOf(pair.alone[n].obj, pair.alone[n].db, fail, order)
    IN  /\ pair' = [pair EXCEPT !.obj[n] = together.obj, !.db = together.db,
                                !.alone[n] = apart]
        /\ UNCHANGED single

PairOrders(n) == Orders(DesiredPermissions(replaceUnderscoreWithSpace(pair.obj[n].desired)))

PairObserve ==
    \E n \in DOMAIN pair.obj :
       /\ pair.obj[n].pc = "idle"
       /\ CallOf(pair.obj[n]) = "observe"
       /\ \E fail \in BOOLEAN, order \in PairOrders(n) : PairRun(n, fail, order)

PairCall ==
    \E n \in DOMAIN pair.obj :
       /\ pair.obj[n].pc = "idle"
       /\ CallOf(pair.obj[n]) # "observe"
       /\ PairRun(n, FALSE, <<>>)

PairLoop ==
    \E n \in DOMAIN pair.obj :
       /\ pair.obj[n].pc # "idle"
       /\ \E fail \in BOOLEAN : PairRun(n, fail, <<>>)

PairNext == PairObserve \/ PairCall \/ PairLoop

PairSpec == PairInit /\ [][PairNext]_vars

(***************************************************************************)
(* Edited runs: one declared Grant whose privilege list the user changes   *)
(* between two reconciles. The managed reconciler runs its cycle, any      *)
(* database call failing; beside the Grant, the privileges its GRANT       *)
(* statements have granted are kept.                                       *)
(***************************************************************************)
\* the privilege lists a user can declare
EditDesired == {<<Select>>, <<AllPermissions>>, <<AllPermissions, Select>>}

\* the privilege the statement the Grant is about to issue grants, if any
GrantDue(o) ==
    LET privileges == replaceUnderscoreWithSpace(o.desired)
    IN  IF o.pc \in {"create", "update_grant"} /\ o.i \in 1..Len(privileges)
        THEN {privileges[o.i]}
        ELSE {}

EditInit ==
    /\ kind = "Grant"
    /\ mg = "Grant"
    /\ KeyspaceIdle
    /\ RoleIdle
    /\ GrantIdle
    /\ pc = "idle"
    /\ log = <<>>
    /\ pre = <<>>
    /\ res = NoCall
    /\ failBudget = 0
    /\ ctx = "live"
    /\ cur = <<>>
    /\ \E first \in Declared([role |-> GrantRole, keyspace |-> GrantKeyspace]) :
       \E desired \in EditDesired :
       \E live \in PairLive :
          pair = [obj |-> <<[first EXCEPT !.desired = desired]>>,
                  db |-> [k \in Identity |-> IF k = IdOf(first) THEN live ELSE {}],
                  alone |-> <<>>,
                  granted |-> {}]

\* the Grant takes its next step; a GRANT that ran adds its privilege to
\* those the engine has granted
EditRun(fail, order) ==
    LET o == pair.obj[1]
        next == StepOf(o, pair.db, fail, order)
    IN  /\ pair' = [pair EXCEPT !.obj[1] = next.obj,
                                !.db = next.db,
                                !.granted = IF fail THEN @ ELSE @ \cup GrantDue(o)]
        /\ UNCHANGED single

EditObserve ==
    /\ pair.obj[1].pc = "idle"
    /\ CallOf(pair.obj[1]) = "observe"
    /\ \E fail \in BOOLEAN, order \in PairOrders(1) : EditRun(fail, order)

EditCall ==
    /\ pair.obj[1].pc = "idle"
    /\ CallOf(pair.obj[1]) # "observe"
    /\ EditRun(FALSE, <<>>)

EditLoop ==
    /\ pair.obj[1].pc # "idle"
    /\ \E fail \in BOOLEAN : EditRun(fail, <<>>)

\* the user changes the privilege list while no reconcile is under way; the
\* next reconcile starts with an Observe
EditPrivileges ==
    /\ pair.obj[1].pc = "idle"
    /\ CallOf(pair.obj[1]) = "observe"
    /\ \E desired \in EditDesired \ {pair.obj[1].desired} :
          pair' = [pair EXCEPT !.obj[1].desired = desired, !.obj[1].res = NoCall]
    /\ UNCHANGED single

EditNext == EditObserve \/ EditCall \/ EditLoop \/ EditPrivileges

EditSpec == EditInit /\ [][EditNext]_vars

(***************************************************************************)
(* Shared runs: two declared Grants of the same (role, keyspace), each     *)
(* with its own privilege list and status, reconciled as the paired ones.  *)
(***************************************************************************)
SharedInit ==
    /\ kind = "Grant"
    /\ mg = "Grant"
    /\ KeyspaceIdle
    /\ RoleIdle
    /\ GrantIdle
    /\ pc = "idle"
    /\ log = <<>>
    /\ pre = <<>>
    /\ res = NoCall
    /\ failBudget = 0
    /\ ctx = "live"
    /\ cur = <<>>
    /\ \E first \in Declared([role |-> GrantRole, keyspace |-> GrantKeyspace]) :
       \E second \in Declared([role |-> GrantRole, keyspace |-> GrantKeyspace]) :
       \E live \in PairLive :
          pair = [obj |-> <<first, second>>,
                  db |-> [k \in Identity |-> IF k = IdOf(first) THEN live ELSE {}],
                  alone |-> <<>>]

\* the Grant n takes its next step on the database the two share
SharedRun(n, fail, order) ==
    LET together == StepOf(pair.obj[n], pair.db, fail, order)
    IN  /\ pair' = [pair EXCEPT !.obj[n] = together.obj, !.db = together.db]
        /\ UNCHANGED single

SharedObserve ==
    \E n \in DOMAIN pair.obj :
       /\ pair.obj[n].pc = "idle"
       /\ CallOf(pair.obj[n]) = "observe"
       /\ \E fail \in BOOLEAN, order \in PairOrders(n) : SharedRun(n, fail, order)

SharedCall ==
    \E n \in DOMAIN pair.obj :
       /\ pair.obj[n].pc = "idle"
       /\ CallOf(pair.obj[n]) # "observe"
       /\ SharedRun(n, FALSE, <<>>)

SharedLoop ==
    \E n \in DOMAIN pair.obj :
       /\ pair.obj[n].pc # "idle"
       /\ \E fail \in BOOLEAN : SharedRun(n, fail, <<>>)

SharedNext == SharedObserve \/ SharedCall \/ SharedLoop

SharedSpec == SharedInit /\ [][SharedNext]_vars

(***************************************************************************)
(* Target runs: one declared Grant whose role and keyspace, both optional  *)
(* pointers, may be unset (a reference not resolved yet). Any method is    *)
(* called on it, in any order, any database call failing.                  *)
(***************************************************************************)
\* Role *string, Keyspace *string of GrantParameters
Targets == [role : {Nil, Ptr(GrantRole)}, keyspace : {Nil, Ptr(GrantKeyspace)}]

TargetUnset(t) == t.role = Nil \/ t.keyspace = Nil

\* the value of a Go panic on the dereference of a nil pointer
errNilDereference == "runtime error: invalid memory address or nil pointer dereference"

\* the call does not return: it panics
Panicked(op) == [Returned(op, errNilDereference) EXCEPT !.cause = "panic"]

\* the method a call enters
MethodOf(call) ==
    IF call = "observe" THEN "Observe"
    ELSE IF call = "create" THEN "Create"
    ELSE IF call = "update_grant" THEN "Update"
    ELSE "Delete"

\* role := *cr.Spec.ForProvider.Role; keyspace := *cr.Spec.ForProvider.Keyspace
Dereferenced(o, t) == [o EXCEPT !.role = Deref(t.role), !.keyspace = Deref(t.keyspace)]

\* the statement the turn of the loop the Grant is in hands to the database
StatementsDue(o) ==
    LET privileges == replaceUnderscoreWithSpace(o.desired)
    IN  IF o.pc \in {"create", "update_grant"} /\ o.i \in 1..Len(privileges)
        THEN <<GrantQueryOf(o, privileges[o.i])>>
        ELSE IF o.pc = "delete" /\ o.i \in 1..Len(privileges)
        THEN <<RevokeQueryOf(o, privileges[o.i])>>
        ELSE IF /\ o.pc = "update_revoke" /\ o.i \in 1..Len(o.status)
                /\ ToRevoke(o.status[o.i], DesiredPermissions(privileges))
        THEN <<RevokeQueryOf(o, o.status[o.i])>>
        ELSE <<>>

TargetInit ==
    /\ kind = "Grant"
    /\ mg = "Grant"
    /\ KeyspaceIdle
    /\ RoleIdle
    /\ GrantIdle
    /\ pc = "idle"
    /\ log = <<>>
    /\ pre = <<>>
    /\ res = NoCall
    /\ failBudget = 0
    /\ ctx = "live"
    /\ cur = <<>>
    /\ \E first \in Declared([role |-> GrantRole, keyspace |-> GrantKeyspace]) :
       \E target \in Targets :
       \E live \in PairLive :
          pair = [obj |-> <<first>>,
                  db |-> [k \in Identity |-> IF k = IdOf(first) THEN live ELSE {}],
                  alone |-> <<>>,
                  target |-> target,
                  log |-> <<>>]

\* a method is called on the Grant: the first statements after the type
\* assertion dereference the role and the keyspace (grant.go:150-151,
\* 215-216, 236-237, 270-271)
TargetCall ==
    /\ pair.obj[1].pc = "idle"
    /\ \E call \in {"observe", "create", "update_grant", "delete"} :
       \E fail \in BOOLEAN, order \in PairOrders(1) :
          pair' = IF TargetUnset(pair.target)
                  THEN [pair EXCEPT !.obj[1].res = Panicked(MethodOf(call)), !.log = <<>>]
                  ELSE LET o == Dereferenced(pair.obj[1], pair.target)
                       IN  IF call = "observe"
                           THEN [pair EXCEPT !.obj[1] = ObserveOf(o, pair.db, fail, order).obj,
                                             !.log = <<PermissionsQueryOf(o)>>]
                           ELSE [pair EXCEPT !.obj[1] = [o EXCEPT !.pc = call, !.i = 1],
                                             !.log = <<>>]
    /\ UNCHANGED single

TargetLoop ==
    /\ pair.obj[1].pc # "idle"
    /\ \E fail \in BOOLEAN :
          LET next == LoopOf(pair.obj[1], pair.db, fail)
          IN  pair' = [pair EXCEPT !.obj[1] = next.obj, !.db = next.db,
                                   !.log = @ \o StatementsDue(pair.obj[1])]
    /\ UNCHANGED single

\* a reference of the Grant is resolved while no call is in flight
TargetResolve ==
    /\ pair.obj[1].pc = "idle"
    /\ \E target \in Targets \ {pair.target} :
          /\ pair.target.role # Nil => target.role = pair.target.role
          /\ pair.target.keyspace # Nil => target.keyspace = pair.target.keyspace
          /\ pair' = [pair EXCEPT !.target = target]
    /\ UNCHANGED single

TargetNext == TargetCall \/ TargetLoop \/ TargetResolve

TargetSpec == TargetInit /\ [][TargetNext]_vars

(***************************************************************************)
(* Claims                                                                  *)
(***************************************************************************)
DesiredSet == Range(replaceUnderscoreWithSpace(gDesired))

\* a state left by a Create or Update that failed part-way
GrantPartialFailure ==
    /\ pc = "idle"
    /\ res.op \in {"Create", "Update"}
    /\ res.err # nil
    /\ Len(log) > 1

GrantConverged ==
    /\ pc = "idle"
    /\ res.op = "Observe"
    /\ res.err = nil
    /\ res.exists
    /\ res.upToDate
    /\ DesiredSet \subseteq gLive
    /\ (gTracked \ DesiredSet) \cap gLive = {}
    /\ gStatus = replaceUnderscoreWithSpace(gDesired)

\* C1: in the scheduled runs, where failures and edits stop, every state
\* left by a Create or Update that failed after applying some statement is
\* followed by a state in which Observe has reported exists and upToDate,
\* every desired privilege is live, every privilege status ever recorded
\* that is not desired is revoked, and status is the desired list.
C1_GrantConvergence == GrantPartialFailure ~> GrantConverged

C1_Witness == GrantConverged /\ gPartial /\ gTracked # DesiredSet

(***************************************************************************)
(* What the claims expect, written independently of the handlers           *)
(***************************************************************************)
NormPriv(p) == IF p = AllPermissions THEN <<"ALL", " ", "PERMISSIONS">> ELSE p

\* the normalized desired list and set
ExpectedD == [i \in 1..Len(gDesired) |-> NormPriv(gDesired[i])]

ExpectedSet == {NormPriv(gDesired[i]) : i \in 1..Len(gDesired)}

Stmts(verb, ps) ==
    [i \in 1..Len(ps) |->
        [verb |-> verb, priv |-> ps[i], keyspace |-> <<"\"", "example_keyspace", "\"">>,
         role |-> <<"\"", "example_role", "\"">>]]

ExpectedGrants == Stmts("GRANT", ExpectedD)

\* the entries of the status list before the call that are not desired
ExpectedRevoked ==
    LET NotDesired(p) == p \notin ExpectedSet
    IN  SelectSeq(pre, NotDesired)

ExpectedRevokes == Stmts("REVOKE", ExpectedRevoked)

IsPrefix(a, b) == Len(a) <= Len(b) /\ a = SubSeq(b, 1, Len(a))

\* the last call was the method op, handed the Grant
GrantReturnedFrom(op) == kind = "Grant" /\ mg = "Grant" /\ pc = "idle" /\ res.op = op

GrantObserved == GrantReturnedFrom("Observe") /\ res.err = nil

\* C2: an Observe that follows a successful Create which met a database
\* without the object, on a Keyspace with class, factor and durable writes
\* set or on a Role with superuser and login set, reports exists, up to date
\* and not late-initialized.
C2_CreateRoundTrip ==
    /\ (/\ kind = "Keyspace"
        /\ res.op = "Observe" /\ res.err = nil /\ res.prev = "CreateAbsent"
        /\ pre.class # Nil /\ pre.factor # Nil /\ pre.durable # Nil)
       => (res.exists /\ res.upToDate /\ ~res.lateInit)
    /\ (/\ kind = "Role"
        /\ res.op = "Observe" /\ res.err = nil /\ res.prev = "CreateAbsent"
        /\ pre.superuser # Nil /\ pre.login # Nil)
       => (res.exists /\ res.upToDate /\ ~res.lateInit)

\* a fresh keyspace the database lists under the qualified class name and
\* with a factor of two digits
C2_Witness ==
    /\ kind = "Keyspace"
    /\ res.op = "Observe" /\ res.err = nil /\ res.prev = "CreateAbsent"
    /\ pre.class # Nil /\ pre.factor # Nil /\ pre.durable # Nil
    /\ res.upToDate
    /\ \E row \in kLive :
          /\ Head(row.replication["class"]) = LocatorPrefix
          /\ Len(row.replication["replication_factor"]) = 2

\* C3: an Observe that follows a successful Create of a Grant with a
\* non-empty privilege list and an empty status reports exists, up to date
\* and not late-initialized.
C3_GrantCreateRoundTrip ==
    (GrantObserved /\ res.prev = "Create" /\ pre = <<>> /\ gDesired # <<>>)
        => (res.exists /\ res.upToDate /\ ~res.lateInit)

C3_Witness ==
    /\ GrantObserved /\ res.prev = "Create" /\ pre = <<>>
    /\ Len(gDesired) = 2
    /\ gDesired[1] = AllPermissions
    /\ gDesired[2] = Select
    /\ res.exists /\ res.upToDate

\* C4: a successful Update has issued one GRANT per entry of the normalized
\* desired list, in order, then one REVOKE per entry of the status list that
\* is not desired, in order, and nothing else; status is then the normalized
\* desired list.
C4_UpdateStatements ==
    (GrantReturnedFrom("Update") /\ res.err = nil)
        => (log = ExpectedGrants \o ExpectedRevokes /\ gStatus = ExpectedD)

\* a status list of which one entry is revoked and one is kept
C4_Witness ==
    /\ GrantReturnedFrom("Update") /\ res.err = nil
    /\ Len(pre) = 2
    /\ Len(ExpectedRevoked) = 1
    /\ AllPermissions \in Range(gDesired)
    /\ gStatus # pre

\* C5: an Update that returns an error has left status as it was before the
\* call; if the failing statement is a GRANT the statements issued are a
\* non-empty prefix of the GRANTs (no REVOKE, no later GRANT) and the error
\* is the grant error; if it is a REVOKE they are all the GRANTs and a
\* non-empty prefix of the REVOKEs and the error is the revoke error.
C5_UpdateAbort ==
    (GrantReturnedFrom("Update") /\ res.err # nil)
        => /\ gStatus = pre
           /\ log # <<>>
           /\ IF log[Len(log)].verb = "GRANT"
              THEN IsPrefix(log, ExpectedGrants) /\ res.err = errGrantCreate
              ELSE /\ IsPrefix(log, ExpectedGrants \o ExpectedRevokes)
                   /\ Len(log) > Len(ExpectedGrants)
                   /\ res.err = errGrantDelete

\* a REVOKE failed while a further REVOKE was still due
C5_Witness ==
    /\ GrantReturnedFrom("Update")
    /\ res.err = errGrantDelete
    /\ Len(log) < Len(ExpectedGrants) + Len(ExpectedRevokes)
    /\ pre # <<>>

\* C6: a Create has issued GRANT statements only, for the normalized desired
\* privileges in list order: all of them when it succeeds, and up to the
\* failing one when it returns an error, which is then the creation error;
\* every privilege granted before the failing statement is still live.
C6_CreateGrants ==
    GrantReturnedFrom("Create")
        => /\ \A i \in DOMAIN log : log[i].verb = "GRANT"
           /\ IF res.err = nil
              THEN log = ExpectedGrants /\ ExpectedSet \subseteq gLive
              ELSE /\ res.err = errGrantCreate
                   /\ log # <<>>
                   /\ IsPrefix(log, ExpectedGrants)
                   /\ \A i \in 1..(Len(log) - 1) : log[i].priv \in gLive

\* the second GRANT failed: the first privilege is live, the second is not
C6_Witness ==
    /\ GrantReturnedFrom("Create")
    /\ res.err = errGrantCreate
    /\ Len(log) = 2
    /\ log[1].priv \in gLive
    /\ log[2].priv \notin gLive

\* C7: an Observe that reports exists has found some normalized desired
\* privilege among the live permissions; with an empty desired list it
\* reports not exists, and up to date when the status list is empty too.
C7_ObserveExists ==
    GrantObserved
        => /\ res.exists => ExpectedSet \cap gLive # {}
           /\ gDesired = <<>> => (~res.exists /\ (pre = <<>> => res.upToDate))

\* exists is reported although a desired privilege is missing
C7_Witness ==
    /\ GrantObserved
    /\ res.exists
    /\ ~(ExpectedSet \subseteq gLive)

\* C8: Observe reports up to date exactly when every normalized desired
\* privilege is live and every entry of the status list is desired, whatever
\* the order and the repetitions of the lists and of the rows read.
C8_ObserveUpToDate ==
    GrantObserved
        => (res.upToDate <=> (ExpectedSet \subseteq gLive /\ Range(pre) \subseteq ExpectedSet))

\* up to date with a repeated privilege in both lists and further live
\* permissions
C8_Witness ==
    /\ GrantObserved
    /\ res.upToDate
    /\ Len(gDesired) = 2 /\ gDesired[1] = gDesired[2]
    /\ Len(pre) = 2 /\ pre[1] = pre[2]
    /\ gLive # ExpectedSet

\* C9: after an Observe that reports up to date, status is the normalized
\* desired list; after one that reports not up to date, status is what it was
\* before the call.
C9_ObserveStatus ==
    GrantObserved
        => IF res.upToDate THEN gStatus = ExpectedD ELSE gStatus = pre

\* the up-to-date Observe replaced a status list that differed
C9_Witness ==
    /\ GrantObserved
    /\ res.upToDate
    /\ gStatus # pre
    /\ pre # <<>>

\* C10: a Delete has issued REVOKE statements for the normalized desired
\* privileges in list order and nothing else: all of them when it succeeds,
\* and up to the failing one when it returns an error, which is then the
\* deletion error.
C10_DeleteRevokes ==
    GrantReturnedFrom("Delete")
        => IF res.err = nil
           THEN log = Stmts("REVOKE", ExpectedD)
           ELSE /\ res.err = errGrantDelete
                /\ log # <<>>
                /\ IsPrefix(log, Stmts("REVOKE", ExpectedD))

\* a privilege that only status lists got no REVOKE
C10_Witness ==
    /\ GrantReturnedFrom("Delete")
    /\ res.err = nil
    /\ log # <<>>
    /\ \E p \in Range(gStatus) : p \notin ExpectedSet /\ \A i \in DOMAIN log : log[i].priv # p

(***************************************************************************)
(* Keyspace and Role: what the claims expect of an observation             *)
(***************************************************************************)
\* the class of a live keyspace without the locator prefix, the empty string
\* when the replication map has none
ExpectedClass(row) ==
    IF "class" \notin DOMAIN row.replication THEN <<>>
    ELSE LET c == row.replication["class"]
         IN  IF c # <<>> /\ c[1] = LocatorPrefix THEN SubSeq(c, 2, Len(c)) ELSE c

\* the number the replication factor of a live keyspace writes in decimal, 0
\* when the map has none or it writes no number
ExpectedFactor(row) ==
    IF "replication_factor" \notin DOMAIN row.replication THEN 0
    ELSE LET text == row.replication["replication_factor"]
         IN  IF \E n \in 0..99 : Itoa(n) = text
             THEN CHOOSE n \in 0..99 : Itoa(n) = text
             ELSE 0

KeyspaceSeen ==
    kind = "Keyspace" /\ pc = "idle" /\ res.op = "Observe" /\ res.err = nil /\ kLive # Absent

RoleSeen ==
    kind = "Role" /\ pc = "idle" /\ res.op = "Observe" /\ res.err = nil /\ rLive # Absent

\* C11: an Observe that finds the Keyspace or the Role present reports
\* late-initialized exactly when some desired attribute was unset at the
\* call; afterwards no desired attribute is unset, and each attribute that was
\* unset holds the observed value.
C11_LateInitFill ==
    /\ KeyspaceSeen =>
          \A row \in kLive :
             /\ res.lateInit <=> (pre.class = Nil \/ pre.factor = Nil \/ pre.durable = Nil)
             /\ kDesired.class # Nil /\ kDesired.factor # Nil /\ kDesired.durable # Nil
             /\ pre.class = Nil => kDesired.class = <<ExpectedClass(row)>>
             /\ pre.factor = Nil => kDesired.factor = <<ExpectedFactor(row)>>
             /\ pre.durable = Nil => kDesired.durable = <<row.durable_writes>>
    /\ RoleSeen =>
          \A row \in rLive :
             /\ res.lateInit <=> (pre.superuser = Nil \/ pre.login = Nil)
             /\ rDesired.superuser # Nil /\ rDesired.login # Nil
             /\ pre.superuser = Nil => rDesired.superuser = <<row.is_superuser>>
             /\ pre.login = Nil => rDesired.login = <<row.can_login>>

\* a Role whose login flag alone was unset and is now the live TRUE
C11_Witness ==
    /\ RoleSeen
    /\ res.lateInit
    /\ pre.superuser # Nil /\ pre.login = Nil
    /\ rDesired.login = <<TRUE>>

\* C12: Keyspace Observe on a present keyspace reports up to date exactly
\* when every attribute that was set at the call equals the observed one:
\* an attribute unset at the call never counts as drift.
C12_FillThenCompare ==
    KeyspaceSeen =>
       \A row \in kLive :
          res.upToDate <=>
             /\ pre.class # Nil => pre.class = <<ExpectedClass(row)>>
             /\ pre.factor # Nil => pre.factor = <<ExpectedFactor(row)>>
             /\ pre.durable # Nil => pre.durable = <<row.durable_writes>>

\* late-initialized and up to date in the same call
C12_Witness ==
    /\ KeyspaceSeen
    /\ res.lateInit /\ res.upToDate
    /\ pre.class = Nil /\ pre.factor # Nil /\ pre.durable = Nil

\* C13 as stated: a Role Observe that finds a row while a desired boolean is
\* unset reports exists, up to date and late-initialized.
C13_RoleUnsetAlwaysUpToDate ==
    (RoleSeen /\ (pre.superuser = Nil \/ pre.login = Nil))
        => (res.exists /\ res.upToDate /\ res.lateInit)

\* C13 amended: a Role Observe that finds a row while a desired boolean is
\* unset reports exists and late-initialized, and up to date exactly when
\* each boolean that was set at the call equals the observed one, so always
\* when both were unset.
C13_RoleUnsetUpToDate ==
    (RoleSeen /\ (pre.superuser = Nil \/ pre.login = Nil))
        => \A row \in rLive :
              /\ res.exists /\ res.lateInit
              /\ res.upToDate <=>
                    /\ pre.superuser # Nil => pre.superuser = <<row.is_superuser>>
                    /\ pre.login # Nil => pre.login = <<row.can_login>>

\* one boolean unset, the other set and equal to the live one
C13_Witness ==
    /\ RoleSeen
    /\ pre.superuser = Nil /\ pre.login # Nil
    /\ res.upToDate /\ res.lateInit

\* C14: Keyspace Observe on a present keyspace with every desired attribute
\* set reports exists, reports up to date exactly when class (prefix
\* stripped), factor (as a number) and durable writes all equal the desired
\* ones, and leaves the desired attributes as they were.
C14_KeyspaceDrift ==
    (KeyspaceSeen /\ pre.class # Nil /\ pre.factor # Nil /\ pre.durable # Nil)
        => \A row \in kLive :
              /\ res.exists
              /\ res.upToDate <=>
                    /\ Deref(pre.class) = ExpectedClass(row)
                    /\ Deref(pre.factor) = ExpectedFactor(row)
                    /\ Deref(pre.durable) = row.durable_writes
              /\ kDesired = pre

\* the factor alone differs: 12 live against 2 desired
C14_Witness ==
    /\ KeyspaceSeen
    /\ pre.class # Nil /\ pre.factor = <<2>> /\ pre.durable # Nil
    /\ ~res.upToDate /\ res.exists
    /\ \E row \in kLive :
          /\ ExpectedClass(row) = Deref(pre.class)
          /\ ExpectedFactor(row) = 12
          /\ row.durable_writes = Deref(pre.durable)

\* the object has no row in the database
NoRow ==
    \/ kind = "Keyspace" /\ kLive = Absent
    \/ kind = "Role" /\ rLive = Absent
    \/ kind = "Grant" /\ gLive = {}

\* the errors of a query that failed
QueryErrors == {errCheckKeyspace, errSelectKeyspace, errSelectRole, errGrantObserve}

\* C15 as stated: an Observe whose queries succeeded and that found no row
\* for the object, also when the keyspace was dropped between the existence
\* query and the details query, returns not exists and no error.
C15_AbsenceIsNoError ==
    (pc = "idle" /\ mg = kind /\ res.op = "Observe" /\ NoRow /\ res.err \notin QueryErrors)
        => (res.err = nil /\ ~res.exists)

\* C16: a call handed something that is not the object of the controller's
\* kind returns the kind-mismatch error of that controller, hands no
\* statement to the database, and changes neither the objects, the status
\* nor the database.
C16_KindMismatch ==
    [][(pc = "idle" /\ mg' # kind)
          => /\ res'.err = errNotKind(kind)
             /\ pc' = "idle"
             /\ log' = <<>>
             /\ UNCHANGED <<kDesired, kLive, rDesired, rLive, gDesired, gStatus,
                            gAvailable, gLive>>]_vars

\* Update on a Role controller handed nothing, the role being live
C16_Witness ==
    /\ kind = "Role"
    /\ mg = "nil"
    /\ res.op = "Update"
    /\ res.err = errNotRole
    /\ rLive # Absent
    /\ log = <<>>

\* C17: an Observe that follows a successful Update, itself called on the
\* drift verdict of an Observe, reports exists and up to date; this for the
\* three kinds.
C17_UpdateSyncs ==
    (pc = "idle" /\ mg = kind /\ res.op = "Observe" /\ res.err = nil
        /\ res.prev = "UpdateDrifted")
        => (res.exists /\ res.upToDate)

\* a keyspace altered to a factor of two digits and found up to date
C17_Witness ==
    /\ kind = "Keyspace" /\ pc = "idle" /\ mg = kind
    /\ res.op = "Observe" /\ res.err = nil /\ res.prev = "UpdateDrifted"
    /\ res.upToDate
    /\ kDesired.factor = <<12>>
    /\ kDesired.class = <<NetworkTopologyStrategy>>


\* the database does not have the object: no row of the keyspace or the
\* role, none of the desired permissions of the grant
ObjectAbsent ==
    IF kind = "Keyspace" THEN kLive = Absent
    ELSE IF kind = "Role" THEN rLive = Absent
    ELSE ExpectedSet \cap gLive = {}

\* a step that is a statement of Delete
DeleteStep ==
    IF kind = "Grant" THEN pc = "delete"
    ELSE pc = "idle" /\ mg' = kind /\ res'.op = "Delete"

\* C18: the Observe that follows a Delete without an error reports the
\* object not to exist; no Delete is rejected because the object is absent
\* already; and a Delete of an object that is absent already leaves the
\* database as it is
C18_DeleteAbsent ==
    /\ []((pc = "idle" /\ mg = kind /\ res.op = "Observe" /\ res.err = nil
            /\ res.prev = "Delete") => ~res.exists)
    /\ []((mg = kind /\ res.op = "Delete" /\ res.err # nil)
            => res.cause # "does not exist")
    /\ [][(ObjectAbsent /\ DeleteStep) => UNCHANGED <<kLive, rLive, gLive>>]_vars

\* a Delete of a keyspace the database does not have has returned no error
C18_Witness ==
    /\ kind = "Keyspace" /\ mg = kind /\ pc = "idle"
    /\ res.op = "Delete" /\ res.err = nil /\ res.prev = "absent"
    /\ kLive = Absent


\* a step that is a statement of the second of two Creates in a row, the
\* first having returned no error
SecondCreateStep ==
    IF kind = "Grant" THEN pc = "create" /\ res.prev = "Create"
    ELSE /\ pc = "idle" /\ mg = kind /\ res.op = "Create" /\ res.err = nil
         /\ mg' = kind /\ res'.op = "Create"

\* C19: no Create is rejected because the object exists already; the second
\* of two Creates in a row leaves the database as the first left it; and
\* the second Create of a role has generated a password and put it in its
\* statement, while the role keeps the attributes and the password it has
C19_CreateIdempotent ==
    /\ []((mg = kind /\ res.op = "Create" /\ res.err # nil)
            => res.cause # "already exists")
    /\ [][SecondCreateStep => UNCHANGED <<kLive, rLive, gLive>>]_vars
    /\ [][(kind = "Role" /\ SecondCreateStep /\ res'.err = nil)
            => (Len(log') = 1 /\ log'[1].password \in Passwords)]_vars

\* the second of two Creates of a role has returned no error; its statement
\* carries another password than the first generated, which the role keeps
C19_Witness ==
    /\ kind = "Role" /\ mg = kind /\ pc = "idle"
    /\ res.op = "Create" /\ res.err = nil /\ res.prev = "again"
    /\ \E row \in rLive : row.password \in Passwords /\ row.password # log[1].password


\* C20: the Observe that follows an Observe which reported the object
\* present and up to date, with no call between them, reports the same, and
\* for a keyspace and a role reports that it late-initialized nothing
C20_SyncedIsStable ==
    (pc = "idle" /\ mg = kind /\ res.op = "Observe" /\ res.err = nil /\ res.prev = "Synced")
        => (res.exists /\ res.upToDate /\ (kind # "Grant" => ~res.lateInit))

\* a keyspace observed twice in a row, its replication map without a factor
C20_Witness ==
    /\ kind = "Keyspace" /\ pc = "idle" /\ mg = kind
    /\ res.op = "Observe" /\ res.err = nil /\ res.prev = "Synced"
    /\ res.exists /\ res.upToDate /\ ~res.lateInit
    /\ pre = kDesired
    /\ \E row \in kLive : "replication_factor" \notin DOMAIN row.replication


\* C21: a Create of a role that returned no error has issued one statement
\* and returns the connection details of the external name and the password
\* of that statement, a password of the generator; a Create whose password
\* generation failed has issued no statement; a Create that returned an
\* error returns no connection details
C21_RoleCreateOutput ==
    (kind = "Role" /\ mg = kind /\ pc = "idle" /\ res.op = "Create")
        => /\ res.err = nil =>
                /\ Len(log) = 1
                /\ log[1].verb = "CREATE ROLE IF NOT EXISTS"
                /\ log[1].password \in Passwords
                /\ res.details = {<<"username", RoleName>>, <<"password", log[1].password>>}
           /\ res.err = errGenerate => log = <<>>
           /\ res.err # nil => res.details = {}

\* a Create of a role has returned the second password of the generator
C21_Witness ==
    /\ kind = "Role" /\ mg = kind /\ pc = "idle"
    /\ res.op = "Create" /\ res.err = nil
    /\ <<"password", "pw2">> \in res.details
    /\ rLive = {DbRoleRow(log[1])}


\* C22: a Create or an Update of a keyspace has issued exactly one
\* statement, CREATE KEYSPACE IF NOT EXISTS or ALTER KEYSPACE, of the
\* keyspace's name, whose class, replication factor and durable writes are
\* the desired values where set and SimpleStrategy, 1 and true where unset,
\* and has left the desired parameters as it found them
C22_KeyspaceDefaults ==
    (kind = "Keyspace" /\ mg = kind /\ pc = "idle" /\ res.op \in {"Create", "Update"})
        => /\ Len(log) = 1
           /\ log[1].verb = IF res.op = "Create" THEN "CREATE KEYSPACE IF NOT EXISTS"
                             ELSE "ALTER KEYSPACE"
           /\ log[1].name = <<"\"", KeyspaceName, "\"">>
           /\ log[1].class = IF pre.class = Nil THEN <<"SimpleStrategy">> ELSE pre.class[1]
           /\ IsDigits(log[1].factor)
           /\ DigitsValue(log[1].factor) = IF pre.factor = Nil THEN 1 ELSE pre.factor[1]
           /\ log[1].durable = IF pre.durable = Nil \/ pre.durable[1] THEN "true" ELSE "false"
           /\ kDesired = pre

\* an Update of a keyspace with nothing set
C22_Witness ==
    /\ kind = "Keyspace" /\ mg = kind /\ pc = "idle"
    /\ res.op = "Update" /\ res.err = nil
    /\ pre = [class |-> Nil, factor |-> Nil, durable |-> Nil]
    /\ log[1].durable = "true"


StatementLabel(op, verb) ==
    IF kind = "Grant"
    THEN IF op = "Create" \/ (op = "Update" /\ verb = "GRANT") THEN "cannot create grant"
         ELSE "cannot delete grant"
    ELSE IF kind = "Keyspace"
    THEN IF op = "Create" THEN "cannot create keyspace"
         ELSE IF op = "Update" THEN "cannot update keyspace"
         ELSE "cannot drop keyspace"
    ELSE IF op = "Create" THEN "cannot create role"
         ELSE IF op = "Update" THEN "cannot update role"
         ELSE "cannot drop role"

\* a step in which a Create, Update or Delete returns the error of a statement
StatementErrorReturn ==
    /\ pc' = "idle" /\ mg' = kind
    /\ res'.op \in {"Create", "Update", "Delete"}
    /\ res'.err \notin {nil, errGenerate}

\* C24: a Create, Update or Delete returns the error of a statement in the
\* step in which that statement, the last it has handed to Exec, failed; the
\* error carries the label of the operation of that kind together with the
\* cause, and the result is the zero value
C24_StatementError ==
    [][StatementErrorReturn
        => /\ log' = Append(IF kind = "Grant" THEN log ELSE <<>>, log'[Len(log')])
           /\ res'.err = StatementLabel(res'.op, log'[Len(log')].verb)
           /\ res'.cause # "none"
           /\ ~res'.exists /\ ~res'.upToDate /\ ~res'.lateInit /\ res'.details = {}]_vars

\* the DROP ROLE of a Delete has failed
C24_Witness ==
    /\ kind = "Role" /\ mg = kind /\ pc = "idle"
    /\ res.op = "Delete" /\ res.err = "cannot drop role" /\ res.cause = errBoom
    /\ Len(log) = 1 /\ log[1].verb = "DROP ROLE IF EXISTS"
    /\ rLive # Absent


\* the keyspace and role names the statements are about
Names == {GrantKeyspace, GrantRole, KeyspaceName, RoleName}

\* every name in a part of a statement's text stands between double quotes
SafelyEmbedded(part) ==
    \A i \in DOMAIN part :
        part[i] \in Names
            => (i > 1 /\ i < Len(part) /\ part[i - 1] = "\"" /\ part[i + 1] = "\"")

\* C25: in every statement and query handed to the database, each part of
\* the text that stands for a keyspace or role name is the name between
\* double quotes or the ? of a bound argument, and each boolean is the
\* literal true or false
C25_IdentifierQuoting ==
    \A i \in DOMAIN log :
        /\ \A part \in DOMAIN log[i] \cap {"keyspace", "role", "name", "resource"} :
              SafelyEmbedded(log[i][part])
        /\ \A part \in DOMAIN log[i] \cap {"durable", "superuser", "login"} :
              log[i][part] \in {"true", "false"}


\* the calls a Connect has made, by name
ConnectLog == [i \in DOMAIN log |-> log[i].verb]

\* C26: a Connect handed an object of another kind has made no call; one
\* handed an object of its kind has made its calls in the order usage
\* tracking, provider config, credential extraction, credential parsing,
\* client construction, up to the first that failed; it returns a client
\* and no error when the client was constructed, and otherwise no client
\* and the error of the last call made, under that call's label
C26_ConnectOrder ==
    (pc = "idle" /\ res.op = "Connect")
        => IF mg # kind
           THEN log = <<>> /\ res.err = errNotKind(kind) /\ ~res.client
           ELSE /\ log # <<>>
                /\ IsPrefix(ConnectLog,
                            <<"usage.Track", "kube.Get", "CommonCredentialExtractor",
                              "json.Unmarshal", "newClient">>)
                /\ IF Len(log) = 5
                   THEN res.err = nil /\ res.client
                   ELSE /\ ~res.client
                        /\ res.cause # "none"
                        /\ res.err = <<"cannot track ProviderConfig usage",
                                       "cannot get ProviderConfig",
                                       "cannot get credentials",
                                       "failed to parse credentials JSON">>[Len(log)]

\* the credentials were extracted but are no JSON
C26_Witness ==
    /\ pc = "idle" /\ mg = kind /\ kind = "Keyspace"
    /\ res.op = "Connect" /\ res.err = errParseCreds
    /\ Len(log) = 4


\* the labels of the errors of a Query that failed
QueryErrorLabels ==
    {"cannot observe grant", "failed to check keyspace existence", "cannot select keyspace",
     "cannot select role"}

\* C27: when an Observe has returned, it holds one cursor for each of its
\* queries that succeeded, and each of them has been closed exactly once,
\* whether the Observe found no object, failed at the details query or at
\* the scan, or returned its verdict; a cursor of an Observe in flight has
\* not been closed
C27_CursorRelease ==
    /\ (pc = "idle" /\ mg = kind /\ res.op = "Observe")
          => /\ Len(cur) = Len(log) - (IF res.err \in QueryErrorLabels THEN 1 ELSE 0)
             /\ \A i \in DOMAIN cur : cur[i].closes = 1
    /\ pc = "details" => (Len(cur) = 1 /\ cur[1].closes = 0)

\* the keyspace was dropped before the scan of the details: both cursors are
\* closed
C27_Witness ==
    /\ kind = "Keyspace" /\ pc = "idle" /\ mg = kind
    /\ res.op = "Observe" /\ res.err = errScanKeyspace
    /\ Len(cur) = 2 /\ cur[1].closes = 1 /\ cur[2].closes = 1


\* the live replication factor of the keyspace is not the text of an integer
FactorUnparsable ==
    \E row \in kLive : /\ "replication_factor" \in DOMAIN row.replication
                        /\ Atoi(row.replication["replication_factor"]).err

\* C28: an operation that has returned after one of its steps failed has
\* returned an error: a Query or an Exec the database failed, a cursor of
\* Keyspace Observe whose Close failed, and a live replication factor that
\* Keyspace Observe could not parse as an integer
C28_NoErrorSwallowed ==
    (pc = "idle" /\ mg = kind /\ res.op # "none")
       => /\ res.cause # "none" => res.err # nil
          /\ (kind = "Keyspace" /\ res.op = "Observe")
                => /\ (\E i \in DOMAIN cur : cur[i].closeErr) => res.err # nil
                   /\ (Len(cur) = 2 /\ kLive # Absent /\ FactorUnparsable) => res.err # nil


\* a step of Grant Create or of Grant Delete, from the call to its return
CreateOrDeleteStep == pc \in {"create", "delete"} \/ pc' \in {"create", "delete"}

\* the step changes Status.AtProvider.Privileges
StatusWritten == gStatus' # gStatus

\* C29: no step of Grant Create or Grant Delete changes
\* Status.AtProvider.Privileges, whether the call succeeds or fails; a step
\* that changes it is a Grant Observe returning upToDate = true or the
\* return of a Grant Update that issued every statement without an error;
\* no Keyspace or Role operation changes it
C29_StatusWriteFrame ==
    [][/\ CreateOrDeleteStep => ~StatusWritten
       /\ StatusWritten
             => /\ kind = "Grant" /\ mg' = "Grant" /\ pc' = "idle" /\ res'.err = nil
                /\ \/ pc = "idle" /\ res'.op = "Observe" /\ res'.upToDate
                   \/ /\ pc = "update_revoke" /\ res'.op = "Update"
                      /\ gI > Len(gStatus)
                      /\ gStatus' = replaceUnderscoreWithSpace(gDesired)]_vars

\* an Update has returned with a status it changed, and a Create that
\* failed has left the status it found
C29_Witness ==
    /\ kind = "Grant" /\ mg = "Grant" /\ pc = "idle"
    /\ \/ res.op = "Update" /\ res.err = nil /\ gStatus # pre
       \/ res.op = "Create" /\ res.err # nil /\ gStatus = pre /\ gStatus # <<>>


\* C30: at every point of every interleaving of the cycles of two Grants
\* of distinct (role, keyspace), each Grant has the spec, the status, the
\* position and the last result (the verdict of its Observe among them) it
\* has at the same point of its cycle run alone, and the permissions of its
\* (role, keyspace) in the database are those of the run alone
C30_Independence ==
    \A n \in DOMAIN pair.obj :
       /\ pair.obj[n] = pair.alone[n].obj
       /\ pair.db[IdOf(pair.obj[n])] = pair.alone[n].db[IdOf(pair.obj[n])]

\* both Grants are past the first statement of a loop, on one keyspace, and
\* the database of the pair is no longer the one either has alone
C30_Witness ==
    /\ pair # NoPair
    /\ \A n \in DOMAIN pair.obj : pair.obj[n].pc # "idle" /\ pair.obj[n].i > 1
    /\ pair.obj[1].keyspace = pair.obj[2].keyspace
    /\ \A n \in DOMAIN pair.obj : pair.db # pair.alone[n].db


\* C31: whenever Observe reports a Grant up to date, every privilege that the
\* GRANT statements of its earlier Create and Update calls have granted and
\* that the desired list no longer holds has been revoked, also when the list
\* was shortened after a successful Create and before the first Observe that
\* writes status.
C31_NoLeakedGrant ==
    LET o == pair.obj[1]
    IN  (/\ DOMAIN pair.obj = {1}
         /\ o.pc = "idle" /\ o.res.op = "Observe" /\ o.res.err = nil /\ o.res.upToDate)
            => (pair.granted \ Range(replaceUnderscoreWithSpace(o.desired)))
                   \cap pair.db[IdOf(o)] = {}


\* C32: the exists and upToDate values an Observe of a Grant returns are
\* those it returns on the same desired list, status list and observed
\* permissions whatever rows carry the permissions and in whatever order the
\* desired privileges are visited.
C32_ObserveDeterminism ==
    GrantObserved
        => \A rows \in QueryRows(gLive) :
           \A order \in Orders(DesiredPermissions(replaceUnderscoreWithSpace(gDesired))) :
              LET r == GrantObserveOf(gDesired, pre, rows, order)
              IN  r.resourceExists = res.exists /\ r.upToDate = res.upToDate


\* C33: after a Create of a Role that returns no error, the password of the
\* returned connection details is the password the role has in the database,
\* also when the role existed before the call.
C33_CredentialConsistency ==
    (kind = "Role" /\ mg = "Role" /\ res.op = "Create" /\ res.err = nil)
        => \A row \in rLive : <<"password", row.password>> \in res.details


\* the two Grants of a shared run: n acts, m is the other
Sharing(n, m) ==
    /\ DOMAIN pair.obj = {1, 2}
    /\ n \in {1, 2} /\ m \in {1, 2} /\ n # m
    /\ IdOf(pair.obj[n]) = IdOf(pair.obj[m])

SharedLive == pair.db[IdOf(pair.obj[1])]

DesiredOf(o) == Range(replaceUnderscoreWithSpace(o.desired))

\* the Grant m, not under deletion, was last observed up to date
StillDesires(m) ==
    /\ ~pair.obj[m].deleting
    /\ pair.obj[m].pc = "idle"
    /\ pair.obj[m].res.op = "Observe" /\ pair.obj[m].res.err = nil
    /\ pair.obj[m].res.upToDate

\* C34 as stated: when two Grants address the same role and keyspace, after
\* a Delete or an Update of one that returned no error, every privilege the
\* other still desires is live, so that the Observe of the other, which
\* reported up to date, reports it again.
C34_SharedTargetUntouched ==
    \A n, m \in {1, 2} :
       (/\ Sharing(n, m)
        /\ pair.obj[n].pc = "idle"
        /\ pair.obj[n].res.op \in {"Delete", "Update"} /\ pair.obj[n].res.err = nil
        /\ StillDesires(m))
           => DesiredOf(pair.obj[m]) \subseteq SharedLive

\* C34, amended: a statement of one Grant removes a privilege that the other
\* desires only when the acting Grant lists it itself, in its desired list
\* for a Delete, in its status list and not in its desired list for an
\* Update; and after a statement that removes none of the other's desired
\* privileges, the Observe of the other reports up to date if it did before.
C34_RevokesOwnListsOnly ==
    [][\A n, m \in {1, 2} :
          (/\ Sharing(n, m)
           /\ pair'.obj[n] # pair.obj[n])
              => LET removed == SharedLive \ pair'.db[IdOf(pair.obj[1])]
                     actor == pair.obj[n]
                     other == pair.obj[m]
                     verdict(db) ==
                        GrantObserveOf(other.desired, other.status,
                                       PairQuery(db, PermissionsQueryOf(other)),
                                       other.desired).upToDate
                 IN  /\ \A p \in removed \cap DesiredOf(other) :
                          \/ actor.pc = "delete" /\ p \in DesiredOf(actor)
                          \/ /\ actor.pc = "update_revoke"
                             /\ p \in Range(actor.status) \ DesiredOf(actor)
                     /\ removed \cap DesiredOf(other) = {}
                           => (verdict(pair.db) => verdict(pair'.db))]_vars

\* the Delete of one Grant has removed a privilege that the other desires
\* and had observed live
C34_Witness ==
    \E n, m \in {1, 2} :
       /\ Sharing(n, m)
       /\ pair.obj[n].pc = "idle"
       /\ pair.obj[n].res.op = "Delete" /\ pair.obj[n].res.err = nil
       /\ StillDesires(m)
       /\ ~(DesiredOf(pair.obj[m]) \subseteq SharedLive)


\* C35: an Observe of a Grant that reports up to date on a non-empty desired
\* list reports exists as well; it reports up to date without exists only
\* on an empty desired list.
C35_VerdictConsistency ==
    GrantObserved
        => /\ (res.upToDate /\ gDesired # <<>>) => res.exists
           /\ (res.upToDate /\ ~res.exists) => gDesired = <<>>

\* up to date and exists on a list of two different privileges
C35_Witness ==
    /\ GrantObserved
    /\ res.upToDate /\ res.exists
    /\ Len(gDesired) = 2 /\ gDesired[1] # gDesired[2]


\* the privileges a Grant knows of: its desired and its status privileges
KnownPrivileges == DesiredSet \cup Range(gStatus)

\* C36: a call on a Grant issues REVOKE statements only for privileges of its
\* desired or its status list, its GRANT and REVOKE statements name the
\* role and the keyspace of the Grant, a live privilege that is in neither
\* list is never removed, and the up-to-date verdict of Observe is the one it
\* gives without such privileges.
C36_RevokeScope ==
    [][(kind = "Grant" /\ mg' = "Grant")
          => /\ \A i \in DOMAIN log' :
                  (log' # log /\ log'[i].verb \in {"GRANT", "REVOKE"})
                     => /\ log'[i].role = QuoteIdentifier(GrantRole)
                        /\ log'[i].keyspace = QuoteIdentifier(GrantKeyspace)
                        /\ log'[i].verb = "REVOKE" => log'[i].priv \in KnownPrivileges
             /\ (gLive \ gLive') \subseteq KnownPrivileges
             /\ (pc = "idle" /\ res'.op = "Observe" /\ res'.err = nil)
                   => \A rows \in QueryRows(gLive \cap KnownPrivileges) :
                      \A order \in Orders(DesiredSet) :
                         res'.upToDate = GrantObserveOf(gDesired, gStatus, rows,
                                                        order).upToDate]_vars

\* an Update has revoked a status privilege while a privilege that another
\* party granted is live
C36_Witness ==
    /\ GrantReturnedFrom("Update") /\ res.err = nil
    /\ \E i \in DOMAIN log : log[i].verb = "REVOKE"
    /\ Range(replaceUnderscoreWithSpace(<<Modify>>)) \subseteq gLive


\* a step of an Observe handed the object of its kind: the whole call, or
\* one of the two halves of the Observe of a Keyspace
ObserveStep ==
    /\ mg' = kind
    /\ \/ pc = "idle" /\ pc' = "idle" /\ res'.op = "Observe"
       \/ pc = "idle" /\ pc' = "details"
       \/ pc = "details" /\ pc' = "idle"

\* C37: an Observe of any kind hands the database queries only, no
\* statement to execute, and leaves the live permissions, keyspace and role
\* as they were, whatever verdict or error it returns.
C37_ObserveReadOnly ==
    [][ObserveStep
          => /\ UNCHANGED <<gLive, kLive, rLive>>
             /\ log' # <<>>
             /\ \A i \in DOMAIN log' : log'[i].verb = "SELECT"]_vars

\* the details query of a Keyspace Observe has failed on a live keyspace
C37_Witness ==
    /\ kind = "Keyspace" /\ mg = "Keyspace" /\ pc = "idle"
    /\ res.op = "Observe" /\ res.err = errSelectKeyspace
    /\ Len(log) = 2
    /\ kLive # Absent


\* the parameters of a desired spec that are set stay as they are
KeptWhereSet(before, after) ==
    \A f \in DOMAIN before : before[f] # Nil => after[f] = before[f]

\* C38: no call changes a parameter of the desired spec that is set, nor the
\* privilege list of a Grant; a desired spec changes only in a Keyspace or
\* Role Observe that finds the object and returns no error, which fills
\* unset parameters with the observed ones; and an Observe of a Grant reports
\* no late initialization.
C38_DesiredFrame ==
    [][/\ gDesired' = gDesired
       /\ KeptWhereSet(kDesired, kDesired')
       /\ KeptWhereSet(rDesired, rDesired')
       /\ kDesired' # kDesired
             => /\ pc = "details" /\ mg' = "Keyspace"
                /\ res'.op = "Observe" /\ res'.err = nil /\ res'.exists /\ res'.lateInit
                /\ \E row \in kLive :
                   \A f \in DOMAIN kDesired :
                      kDesired[f] = Nil => kDesired'[f] = KeyspaceObserved(row)[f]
       /\ rDesired' # rDesired
             => /\ pc = "idle" /\ mg' = "Role"
                /\ res'.op = "Observe" /\ res'.err = nil /\ res'.exists /\ res'.lateInit
                /\ \E row \in rLive :
                   \A f \in DOMAIN rDesired :
                      rDesired[f] = Nil => rDesired'[f] = RoleObserved(row)[f]
       /\ (kind = "Grant" /\ mg' = "Grant" /\ pc = "idle" /\ res'.op = "Observe")
             => ~res'.lateInit]_vars

\* an Observe has filled the unset login flag of a Role and kept its
\* superuser flag, which differs from the live one
C38_Witness ==
    /\ kind = "Role" /\ mg = "Role"
    /\ res.op = "Observe" /\ res.err = nil /\ res.lateInit
    /\ pre.login = Nil /\ pre.superuser # Nil
    /\ rDesired.login # Nil
    /\ rDesired.superuser = pre.superuser
    /\ \E row \in rLive : Ptr(row.is_superuser) # rDesired.superuser


\* C39: a method called on a Grant whose role or keyspace is unset returns an
\* error result, not a panic, and has handed no statement to the database.
C39_UnsetTargetIsError ==
    (/\ DOMAIN pair.obj = {1}
     /\ TargetUnset(pair.target)
     /\ pair.obj[1].pc = "idle" /\ pair.obj[1].res.op # "none")
        => /\ pair.obj[1].res.err # nil
           /\ pair.obj[1].res.cause # "panic"
           /\ pair.log = <<>>


\* the replication map lacks the class, or lacks the factor or holds one
\* that is not the text of an integer
IncompleteMap(row) ==
    \/ "class" \notin DOMAIN row.replication
    \/ "replication_factor" \notin DOMAIN row.replication
    \/ Atoi(row.replication["replication_factor"]).err

\* what the claim takes as observed: the factor 0 and the class the empty
\* string where the map gives none
TakenAsObserved(row) ==
    [class |-> Ptr(ExpectedClass(row)),
     factor |-> Ptr(IF "replication_factor" \in DOMAIN row.replication
                       /\ ~Atoi(row.replication["replication_factor"]).err
                    THEN ExpectedFactor(row) ELSE 0),
     durable |-> Ptr(row.durable_writes)]

\* C40: a Keyspace Observe that has scanned a details row whose replication
\* map is incomplete returns no error and reports exists; each desired
\* attribute that was unset now holds the value taken as observed (factor 0,
\* class the empty string where the map gives none), late initialization is
\* reported exactly when one was unset, and up to date exactly when the
\* attributes then equal those values.
C40_IncompleteReplicationMap ==
    (/\ kind = "Keyspace" /\ mg = "Keyspace" /\ pc = "idle"
     /\ res.op = "Observe" /\ Len(log) = 2 /\ res.err # errSelectKeyspace
     /\ kLive # Absent)
        => \A row \in kLive :
              IncompleteMap(row)
                 => LET observed == TakenAsObserved(row)
                    IN  /\ res.err = nil
                        /\ res.exists
                        /\ \A f \in DOMAIN pre :
                              kDesired[f] = IF pre[f] = Nil THEN observed[f] ELSE pre[f]
                        /\ res.lateInit <=> \E f \in DOMAIN pre : pre[f] = Nil
                        /\ res.upToDate <=> kDesired = observed

\* an empty replication map against a desired factor of 0 and an unset
\* class: up to date, the class filled with the empty string
C40_Witness ==
    /\ kind = "Keyspace" /\ mg = "Keyspace" /\ pc = "idle"
    /\ res.op = "Observe" /\ res.err = nil
    /\ \E row \in kLive : DOMAIN row.replication = {}
    /\ pre.class = Nil /\ pre.factor = Ptr(0)
    /\ kDesired.class = Ptr(<<>>)
    /\ res.upToDate

====
